---- MODULE Spec2Model ----
(***************************************************************************)
(* A model of next-openapi-gen: the structural (TypeScript) type resolver  *)
(* of SchemaProcessor, the required-list logic of the Zod converter and    *)
(* the response assembly of RouteProcessor.                                *)
(*                                                                         *)
(* Schemas are records holding exactly the keys the JavaScript object      *)
(* holds; a property map is a sequence of [name, schema] pairs in          *)
(* insertion order; a literal value is a record [kind, repr].              *)
(***************************************************************************)
EXTENDS Integers, Sequences, FiniteSets, TLC

\* ------------------------------------------------------------------ bounds
MaxDepth == 3
MaxMembers == 3
MaxKeys == 2
MaxUnion == 3
MaxChain == 3
MaxFiles == 3
MaxParams == 2
MaxPreScans == 2

\* ---------------------------------------------------------- schema values
\* The object literal {}.
EmptySchema == [x \in {} |-> TRUE]

\* { ...a, ...b }
Spread(a, b) ==
  [x \in DOMAIN a \cup DOMAIN b |-> IF x \in DOMAIN b THEN b[x] ELSE a[x]]

\* { $ref: `#/components/schemas/${name}` }
SchemaRef(name) == [ref |-> <<"#", "components", "schemas", name>>]

\* obj[key] = value on a JavaScript object: an existing key keeps its place.
PropSet(props, key, value) ==
  IF \E i \in 1..Len(props) : props[i].name = key
  THEN [i \in 1..Len(props) |->
          IF props[i].name = key THEN [name |-> key, schema |-> value]
          ELSE props[i]]
  ELSE Append(props, [name |-> key, schema |-> value])

PropNames(props) == {props[i].name : i \in 1..Len(props)}

PropGet(props, key) ==
  props[CHOOSE i \in 1..Len(props) : props[i].name = key].schema

\* record[key] = value on a Record<string, ...>.
Put(f, key, value) ==
  [x \in DOMAIN f \cup {key} |-> IF x = key THEN value ELSE f[x]]

\* A result of a method that also changes the processor's fields.
R(st, v) == [st |-> st, v |-> v]

\* ------------------------------------------------------------ type nodes
Kw(k) == [t |-> "kw", k |-> k]
Lit(kind, repr) == [t |-> "lit", kind |-> kind, repr |-> repr]
TRef(name) == [t |-> "ref", name |-> name, params |-> <<>>]
Generic(name, params) == [t |-> "ref", name |-> name, params |-> params]
Arr(elem) == [t |-> "array", elem |-> elem]
Union(types) == [t |-> "union", types |-> types]
Inter(types) == [t |-> "inter", types |-> types]
TypeLit(members) == [t |-> "typelit", members |-> members]
Member(name, type, optional) ==
  [name |-> name, type |-> type, optional |-> optional, comment |-> ""]

NullishKw == {"void", "null", "undefined"}
IsNullish(node) == node.t = "kw" /\ node.k \in NullishKw

\* ------------------------------------------------- SchemaProcessor (pure)
\* typeof of a literal's value.
TypeOf(lit) == lit.kind

LitValue(lit) == [kind |-> lit.kind, repr |-> lit.repr]

IsPrimitiveLit(node) ==
  node.t = "lit" /\ node.kind \in {"string", "number", "boolean"}

\* extractKeysFromLiteralType
ExtractKeysFromLiteralType(node) ==
  LET IsStringLit(x) == x.t = "lit" /\ x.kind = "string" IN
  IF IsStringLit(node) THEN <<node.repr>>
  ELSE IF node.t = "union"
  THEN LET sel == SelectSeq(node.types, IsStringLit)
       IN [i \in 1..Len(sel) |-> sel[i].repr]
  ELSE <<>>

SeqToSet(s) == {s[i] : i \in 1..Len(s)}

RECURSIVE PickProperties(_, _, _, _)
\* keyNames.forEach(key => { if (base[key]) properties[key] = base[key] })
PickProperties(baseProps, keyNames, i, acc) ==
  IF i > Len(keyNames) THEN acc
  ELSE PickProperties(baseProps, keyNames, i + 1,
         IF keyNames[i] \in PropNames(baseProps)
         THEN PropSet(acc, keyNames[i], PropGet(baseProps, keyNames[i]))
         ELSE acc)

\* An Omit that drops nothing.
KeepAllProperties(baseProps, keyNames) == baseProps

\* Object.entries(base).forEach(([k, v]) => { if (!keyNames.includes(k)) ... })
OmitProperties(baseProps, keyNames) ==
  LET Kept(p) == p.name \notin SeqToSet(keyNames)
  IN SelectSeq(baseProps, Kept)

\* getPropertyOptions
GetPropertyOptions(member, ctype) ==
  LET d == IF member.comment # "" THEN [description |-> member.comment]
           ELSE EmptySchema
  IN IF ctype = "body" THEN Spread(d, [nullable |-> member.optional]) ELSE d

\* The literal branch of resolveTSNodeType (lines 319-336).
LiteralSchema(node) == [type |-> node.kind, enum |-> <<LitValue(node)>>]

\* The all-literals branch of a union (lines 467-507): the enum schema, or
\* EmptySchema when the branch does not return.
UnionEnumSchema(node) ==
  LET IsLit(x) == x.t = "lit"
      literals == SelectSeq(node.types, IsLit)
      enumNodes == SelectSeq(literals, IsPrimitiveLit)
      enumValues == [i \in 1..Len(enumNodes) |-> LitValue(enumNodes[i])]
  IN IF /\ Len(literals) = Len(node.types)
        /\ Len(enumValues) > 0
        /\ \A i \in 1..Len(enumValues) :
              TypeOf(enumValues[i]) = TypeOf(enumValues[1])
     THEN [type |-> TypeOf(enumValues[1]), enum |-> enumValues]
     ELSE EmptySchema

NonNullableTypes(node) ==
  LET NotNullish(x) == ~IsNullish(x) IN SelectSeq(node.types, NotNullish)

NullableTypes(node) == SelectSeq(node.types, IsNullish)

\* `null`, as convertZodSchemaToOpenApi returns it for an unknown name.
Null == [null |-> TRUE]

\* ------------------------------------------- SchemaProcessor (resolution)
\* resolveType and resolveTSNodeType call each other: Invoke is the method
\* call this.<method>(argument) on the processor whose fields are st.
RECURSIVE Invoke(_, _, _)

\* The methods of the ZodSchemaConverter the processor calls.
RECURSIVE ConvertZodSchemaToOpenApi(_, _)
RECURSIVE ProcessZodNode(_, _)

\* const x = value; followed by the statements body(x): value is computed
\* before the statements run.
Bind(value, Body(_)) == IF value = value THEN Body(value) ELSE Body(value)

CallResolveType(st, typeName) == Invoke(st, "resolveType", typeName)

CallResolveTSNodeType(st, node) == Invoke(st, "resolveTSNodeType", node)

RECURSIVE AssignProperties(_, _, _)
\* Object.assign(props, from)
AssignProperties(props, from, j) ==
  IF j > Len(from) THEN props
  ELSE AssignProperties(PropSet(props, from[j].name, from[j].schema),
                        from, j + 1)

RECURSIVE ResolveExtends(_, _, _, _)
\* typeNode.extends.forEach(...): Object.assign of each base's properties.
ResolveExtends(st, extends, i, acc) ==
  IF i > Len(extends) THEN R(st, acc)
  ELSE Bind(CallResolveTSNodeType(st, extends[i]), LAMBDA e :
         ResolveExtends(e.st, extends, i + 1,
            IF "properties" \in DOMAIN e.v
            THEN AssignProperties(acc, e.v.properties, 1) ELSE acc))

RECURSIVE ResolveMembers(_, _, _, _, _)
\* members.forEach(...): with the member's options (resolveType) or without
\* them (the TSTypeLiteral branch of resolveTSNodeType).
ResolveMembers(st, members, i, acc, withOptions) ==
  IF i > Len(members) THEN R(st, acc)
  ELSE LET options == IF withOptions
                      THEN GetPropertyOptions(members[i], st.ctype)
                      ELSE EmptySchema
       IN Bind(CallResolveTSNodeType(st, members[i].type), LAMBDA m :
            ResolveMembers(m.st, members, i + 1,
              PropSet(acc, members[i].name, Spread(m.v, options)),
              withOptions))

RECURSIVE ResolveEach(_, _, _, _)
\* nodes.map(n => this.resolveTSNodeType(n))
ResolveEach(st, nodes, i, acc) ==
  IF i > Len(nodes) THEN R(st, acc)
  ELSE Bind(CallResolveTSNodeType(st, nodes[i]), LAMBDA r :
         ResolveEach(r.st, nodes, i + 1, Append(acc, r.v)))

RECURSIVE TakeProperties(_, _, _)
\* Object.entries(resolved.properties).forEach(...) of the intersection
\* branch: a = [properties, required].
TakeProperties(a, from, j) ==
  IF j > Len(from) THEN a
  ELSE TakeProperties(
         [properties |-> PropSet(a.properties, from[j].name, from[j].schema),
          required |-> IF "required" \in DOMAIN from[j].schema
                          /\ from[j].schema.required = TRUE
                       THEN Append(a.required, from[j].name)
                       ELSE a.required],
         from, j + 1)

RECURSIVE MergeIntersection(_, _, _, _)
\* The intersection branch (lines 546-569): acc = [properties, required].
MergeIntersection(st, nodes, i, acc) ==
  IF i > Len(nodes) THEN R(st, acc)
  ELSE Bind(CallResolveTSNodeType(st, nodes[i]), LAMBDA r :
         MergeIntersection(r.st, nodes, i + 1,
            IF /\ "type" \in DOMAIN r.v
               /\ r.v.type = "object"
               /\ "properties" \in DOMAIN r.v
            THEN TakeProperties(acc, r.v.properties, 1) ELSE acc))

\* { type: "array", items: <resolved element> }
ArrayOf(e) == R(e.st, [type |-> "array", items |-> e.v])

\* { type: "object", properties }
ObjectOf(mem) == R(mem.st, [type |-> "object", properties |-> mem.v])

\* A resolver that takes every name for an object type.
ResolveUndeclaredAsObject(st, typeName) == R(st, [type |-> "object"])

\* this.openapiDefinitions[typeName] = zodSchema; return zodSchema
RegisterZodSchema(st, z, typeName) ==
  R([st EXCEPT !.zod = z.st, !.defs = Put(@, typeName, z.v)], z.v)

\* An enum member: its name and its initializer, a literal or NoInitializer.
NoInitializer == [t |-> "none"]
EnumMember(name, init) == [name |-> name, init |-> init]
EnumDecl(members) == [t |-> "enum", members |-> members]

\* member.initializer?.value, for a numeric or a string literal
InitializerValue(member) == LitValue(member.init)

\* What `value || name` takes for falsy: undefined, 0 and the empty string.
IsFalsy(member) ==
  \/ member.init.t # "lit"
  \/ member.init.kind = "number" /\ member.init.repr = "0"
  \/ member.init.kind = "string" /\ member.init.repr = ""

\* const targetValue = value || name
TargetValue(member) ==
  IF IsFalsy(member) THEN [kind |-> "string", repr |-> member.name]
  ELSE InitializerValue(member)

\* processEnum
ProcessEnum(enumNode) ==
  [type |-> IF \E i \in 1..Len(enumNode.members) :
                  /\ enumNode.members[i].init.t = "lit"
                  /\ enumNode.members[i].init.kind = "number"
            THEN "number" ELSE "string",
   enum |-> [i \in 1..Len(enumNode.members) |->
               TargetValue(enumNode.members[i])]]

\* The type node is a call z.<method>(...) (lines 194-208): converted when
\* schemaType is zod; otherwise no later branch matches and {} is returned.
ResolveZodCall(st, node, typeName) ==
  IF st.schemaType = "zod"
  THEN RegisterZodSchema(st, ProcessZodNode(st.zod, node), typeName)
  ELSE R(st, EmptySchema)

\* The try block of resolveType from the type node on (lines 191-277).
ResolveTypeNode(st, typeName) ==
  IF typeName \notin DOMAIN st.tdefs THEN R(st, EmptySchema)
  ELSE LET node == st.tdefs[typeName] IN
    CASE node.t = "call" /\ node.object.t = "id" /\ node.object.name = "z" ->
           ResolveZodCall(st, node, typeName)
      [] node.t = "enum" -> R(st, ProcessEnum(node))
      [] node.t = "interface" ->
           Bind(ResolveExtends(st, node.extends, 1, <<>>), LAMBDA ext :
             ObjectOf(ResolveMembers(ext.st, node.members, 1, ext.v, TRUE)))
      [] node.t = "typelit" ->
           ObjectOf(ResolveMembers(st, node.members, 1, <<>>, TRUE))
      [] node.t = "array" -> ArrayOf(CallResolveTSNodeType(st, node.elem))
      [] node.t \in {"union", "ref"} -> CallResolveTSNodeType(st, node)
      [] OTHER -> R(st, EmptySchema)

\* The finally block of resolveType: processingTypes.delete(typeName).
LeaveType(body, typeName) ==
  R([body.st EXCEPT !.processing = @ \ {typeName}, !.depth = @ - 1], body.v)

\* The converter's answer for typeName: registered and returned when it is
\* a schema, otherwise the type node is resolved.
ZodSchemaOrTypeNode(st, z, typeName) ==
  IF z.v # Null THEN RegisterZodSchema(st, z, typeName)
  ELSE ResolveTypeNode([st EXCEPT !.zod = z.st], typeName)

\* The try block of resolveType: with schemaType zod and typeName not
\* registered yet, the converter is asked first (lines 182-189).
ResolveTypeBody(st, typeName) ==
  IF st.schemaType = "zod" /\ typeName \notin DOMAIN st.defs
  THEN ZodSchemaOrTypeNode(st, ConvertZodSchemaToOpenApi(st.zod, typeName),
                           typeName)
  ELSE ResolveTypeNode(st, typeName)

\* resolveType: the in-progress check, then the body inside try/finally.
\* A call chain deeper than MaxDepth exhausts the stack.
ResolveType(st, typeName) ==
  IF st.overflow THEN R(st, EmptySchema)
  ELSE IF typeName \in st.processing THEN R(st, SchemaRef(typeName))
  ELSE IF st.depth >= MaxDepth
  THEN R([st EXCEPT !.overflow = TRUE], EmptySchema)
  ELSE LeaveType(
         ResolveTypeBody([st EXCEPT !.processing = @ \cup {typeName},
                                    !.depth = @ + 1], typeName),
         typeName)

\* The initializer of `const schemaName = ...`, or Null.
InitializerOf(file, schemaName) ==
  IF \E i \in 1..Len(file.exports) : file.exports[i].name = schemaName
  THEN file.exports[CHOOSE i \in 1..Len(file.exports) :
                      file.exports[i].name = schemaName].init
  ELSE Null

\* collectTypeDefinitions: the type alias or interface named schemaName, or
\* the initializer of the variable of that name.
CollectTypeDefinitions(tdefs, file, schemaName) ==
  IF schemaName \in DOMAIN file.decls
  THEN Put(tdefs, schemaName, file.decls[schemaName])
  ELSE IF InitializerOf(file, schemaName) # Null
  THEN Put(tdefs, schemaName, InitializerOf(file, schemaName))
  ELSE tdefs

\* if (!this.isResolvingPickOmitBase) openapiDefinitions[schemaName] = def
RegisterDefinition(st, schemaName, definition) ==
  IF ~st.flag THEN Put(st.defs, schemaName, definition) ELSE st.defs

\* this.processingTypes.clear() before each schema processing
ResetProcessingTypes(processing) == {}

\* The end of processSchemaFile's try block, after resolveType returned.
RecordDefinition(def, file, schemaName) ==
  IF def.st.overflow THEN def.st
  ELSE [def.st EXCEPT
          !.defs = RegisterDefinition(def.st, schemaName, def.v),
          !.tracker = @ \cup {<<file.path, schemaName>>}]

\* processSchemaFile
ProcessSchemaFile(st, file, schemaName) ==
  IF st.overflow \/ <<file.path, schemaName>> \in st.tracker THEN st
  ELSE IF ~file.parses THEN st
  ELSE RecordDefinition(
         CallResolveType(
           [st EXCEPT !.tdefs = CollectTypeDefinitions(@, file, schemaName),
                      !.processing = ResetProcessingTypes(@)],
           schemaName),
         file, schemaName)

RECURSIVE ScanSchemaDir(_, _, _)
\* scanSchemaDir: the .ts files under schemaDir, in directory order.
ScanSchemaDir(st, i, schemaName) ==
  IF i > Len(st.files) THEN st
  ELSE ScanSchemaDir(ProcessSchemaFile(st, st.files[i], schemaName),
                     i + 1, schemaName)

\* The converter's answer for schemaName: registered when it is a schema,
\* otherwise the fall back to scanSchemaDir.
ZodSchemaOrScan(st, z, schemaName) ==
  IF z.v # Null THEN RegisterZodSchema(st, z, schemaName).st
  ELSE ScanSchemaDir([st EXCEPT !.zod = z.st], 1, schemaName)

\* findSchemaDefinition: returns the new fields. The converter exists and is
\* asked first only when schemaType is zod.
FindSchemaDefinition(st, schemaName, ctype) ==
  IF st.schemaType = "zod"
  THEN ZodSchemaOrScan([st EXCEPT !.ctype = ctype],
         ConvertZodSchemaToOpenApi(st.zod, schemaName), schemaName)
  ELSE ScanSchemaDir([st EXCEPT !.ctype = ctype], 1, schemaName)

\* A Pick/Omit branch that leaves isResolvingPickOmitBase as it is.
StillResolvingBase(st) == st

\* this.isResolvingPickOmitBase = false, after the base was resolved
EndPickOmitBase(st) == [st EXCEPT !.flag = FALSE]

\* The Pick/Omit branch (lines 395-432).
ResolvePickOmit(st, node) ==
  IF Len(node.params) > 1
  THEN Bind(CallResolveTSNodeType([st EXCEPT !.flag = TRUE], node.params[1]),
         LAMBDA base :
           IF "properties" \in DOMAIN base.v
           THEN R(EndPickOmitBase(base.st),
                  [type |-> "object",
                   properties |->
                     IF node.name = "Pick"
                     THEN PickProperties(base.v.properties,
                            ExtractKeysFromLiteralType(node.params[2]), 1, <<>>)
                     ELSE OmitProperties(base.v.properties,
                            ExtractKeysFromLiteralType(node.params[2]))])
           ELSE CallResolveTSNodeType(EndPickOmitBase(base.st),
                                      node.params[1]))
  ELSE CallResolveTSNodeType(st, node.params[1])

\* { type: "object", additionalProperties: <resolved value type> }
RecordOf(v) == R(v.st, [type |-> "object", additionalProperties |-> v.v])

\* The TSTypeReference branch of resolveTSNodeType (lines 352-443). At the
\* deepest frame the calls to findSchemaDefinition and resolveType exhaust the
\* stack.
ResolveReference(st, node) ==
  CASE node.name = "Date" -> R(st, [type |-> "string", format |-> "date-time"])
    [] node.name \in {"Array", "ReadonlyArray"} ->
         IF Len(node.params) > 0
         THEN ArrayOf(CallResolveTSNodeType(st, node.params[1]))
         ELSE R(st, [type |-> "array", items |-> [type |-> "object"]])
    [] node.name = "Record" ->
         IF Len(node.params) > 1
         THEN RecordOf(CallResolveTSNodeType(
                         CallResolveTSNodeType(st, node.params[1]).st,
                         node.params[2]))
         ELSE R(st, [type |-> "object", additionalProperties |-> TRUE])
    [] node.name \in {"Partial", "Required", "Readonly"}
         /\ Len(node.params) > 0 -> CallResolveTSNodeType(st, node.params[1])
    [] node.name \in {"Pick", "Omit"} /\ Len(node.params) > 0 ->
         ResolvePickOmit(st, node)
    [] OTHER ->
         IF node.name \in st.processing THEN R(st, SchemaRef(node.name))
         ELSE IF st.depth >= MaxDepth
         THEN R([st EXCEPT !.overflow = TRUE], EmptySchema)
         ELSE CallResolveType(FindSchemaDefinition(st, node.name, st.ctype),
                              node.name)

\* A union branch that forgets the null member.
NotNullableOf(main) == main

\* { ...mainType, nullable: true }
NullableOf(main) == R(main.st, Spread(main.v, [nullable |-> TRUE]))

\* { oneOf: [...] }
OneOf(each) == R(each.st, [oneOf |-> each.v])

\* The union branch of resolveTSNodeType (lines 465-544).
ResolveUnion(st, node) ==
  IF UnionEnumSchema(node) # EmptySchema THEN R(st, UnionEnumSchema(node))
  ELSE IF Len(NullableTypes(node)) > 0 /\ Len(NonNullableTypes(node)) = 1
  THEN NullableOf(CallResolveTSNodeType(st, NonNullableTypes(node)[1]))
  ELSE OneOf(ResolveEach(st, NonNullableTypes(node), 1, <<>>))

\* The object an intersection returns (lines 563-568).
IntersectionOf(m) ==
  R(m.st,
    IF Len(m.v.required) > 0
    THEN [type |-> "object", properties |-> m.v.properties,
          required |-> m.v.required]
    ELSE [type |-> "object", properties |-> m.v.properties])

\* resolveTSNodeType
ResolveTSNodeType(st, node) ==
  CASE node.t = "none" -> R(st, [type |-> "object"])
    [] node.t = "kw" ->
         R(st, IF node.k \in {"string", "number", "boolean"}
               THEN [type |-> node.k]
               ELSE IF node.k \in NullishKw THEN [type |-> "null"]
               ELSE [type |-> "object"])
    [] node.t = "lit" ->
         R(st, IF IsPrimitiveLit(node) THEN LiteralSchema(node)
               ELSE [type |-> "object"])
    [] node.t = "ref" -> ResolveReference(st, node)
    [] node.t = "array" -> ArrayOf(CallResolveTSNodeType(st, node.elem))
    [] node.t = "typelit" ->
         ObjectOf(ResolveMembers(st, node.members, 1, <<>>, FALSE))
    [] node.t = "union" -> ResolveUnion(st, node)
    [] node.t = "inter" ->
         IntersectionOf(MergeIntersection(st, node.types, 1,
                          [properties |-> <<>>, required |-> <<>>]))
    [] OTHER -> R(st, [type |-> "object"])

\* Once the stack is exhausted the RangeError unwinds every pending call.
Invoke(st, method, argument) ==
  IF st.overflow THEN R(st, EmptySchema)
  ELSE IF method = "resolveType" THEN ResolveType(st, argument)
  ELSE ResolveTSNodeType(st, argument)

\* ------------------------------------------------------ Zod expressions
\* Babel nodes of a builder expression: an identifier, a call
\* object.method(args), an object expression, a string or numeric literal.
ZId(name) == [t |-> "id", name |-> name]
ZCall(object, method, args) ==
  [t |-> "call", object |-> object, method |-> method, args |-> args]
ZObjectExpr(props) == [t |-> "objexpr", props |-> props]
ZProp(key, value) == [key |-> key, value |-> value]
ZStr(value) == [t |-> "str", value |-> value]
ZNum(value) == [t |-> "num", value |-> value]
\* () => body
ZArrow(body) == [t |-> "arrow", body |-> body]

\* A hasOptionalMethod that knows no marker.
NoOptionalMethod(node) == FALSE

RECURSIVE HasOptionalMethod(_)
\* hasOptionalMethod
HasOptionalMethod(node) ==
  IF node.t # "call" THEN FALSE
  ELSE IF node.method \in {"optional", "nullable", "nullish"} THEN TRUE
  ELSE IF node.object.t = "call" THEN HasOptionalMethod(node.object)
  ELSE FALSE

\* isOptional
IsOptional(node) ==
  IF node.t = "call" /\ node.method = "optional" THEN TRUE
  ELSE IF node.t = "call" /\ node.object.t = "call"
  THEN HasOptionalMethod(node)
  ELSE FALSE

\* isZodSchema
RECURSIVE IsZodSchema(_)
IsZodSchema(node) ==
  IF node.t # "call" THEN FALSE
  ELSE IF node.object.t = "id" /\ node.object.name = "z" THEN TRUE
  ELSE IF node.object.t = "call" THEN IsZodSchema(node.object)
  ELSE FALSE

\* extractDescriptionFromArguments, applied to a schema
WithDescription(schema, node) ==
  IF node.method = "describe" /\ Len(node.args) > 0 /\ node.args[1].t = "str"
  THEN Spread(schema, [description |-> node.args[1].value])
  ELSE schema

\* The switch of processZodChain, for the methods of the modelled subset.
ApplyMethod(schema, node) ==
  CASE node.method \in {"optional", "nullable", "nullish"} ->
         Spread(schema, [nullable |-> TRUE])
    [] node.method = "describe" -> WithDescription(schema, node)
    [] node.method = "min" /\ Len(node.args) > 0 /\ node.args[1].t = "num" ->
         IF "type" \in DOMAIN schema /\ schema.type = "string"
         THEN Spread(schema, [minLength |-> node.args[1].value])
         ELSE IF "type" \in DOMAIN schema /\ schema.type \in {"number", "integer"}
         THEN Spread(schema, [minimum |-> node.args[1].value])
         ELSE IF "type" \in DOMAIN schema /\ schema.type = "array"
         THEN Spread(schema, [minItems |-> node.args[1].value])
         ELSE schema
    [] node.method = "email" -> Spread(schema, [format |-> "email"])
    [] OTHER -> schema

\* ---------------------------------------------------- ZodSchemaConverter
\* zst is the converter: [zodSchemas, processing, files, mapping, preScans];
\* mapping is typeToSchemaMapping, and preScans counts the runs of
\* preScanForTypeMappings, up to MaxPreScans.
RECURSIVE ProcessZodObject(_, _)

\* The converter as its constructor leaves it, over the given files.
NewConverter(files) ==
  [zodSchemas |-> EmptySchema, processing |-> {}, files |-> files,
   mapping |-> EmptySchema, preScans |-> 0]

\* if (!this.zodSchemas[name]) this.convertZodSchemaToOpenApi(name)
EnsureConverted(zst, name) ==
  IF name \in DOMAIN zst.zodSchemas THEN zst
  ELSE ConvertZodSchemaToOpenApi(zst, name).st

\* properties[propName] = schema; required.push(propName) unless optional
SetProperty(acc, key, schema, isRequired) ==
  [properties |-> PropSet(acc.properties, key, schema),
   required |-> IF isRequired THEN Append(acc.required, key)
                ELSE acc.required]

AddProperty(acc, key, r, isRequired) ==
  R(r.st, SetProperty(acc, key, r.v, isRequired))

\* The describe special case of processZodObject (lines 767-783).
DescribedReference(prop) ==
  IF Len(prop.value.args) > 0 /\ prop.value.args[1].t = "str"
  THEN [allOf |-> <<SchemaRef(prop.value.object.name)>>,
        description |-> prop.value.args[1].value]
  ELSE SchemaRef(prop.value.object.name)

\* The branch for Identifier.method(...) values, after the base schema was
\* looked for (lines 753-796).
MemberCallProperty(zst, acc, prop) ==
  IF prop.value.method = "describe"
     /\ prop.value.object.name \in DOMAIN zst.zodSchemas
  THEN R(zst, SetProperty(acc, prop.key, DescribedReference(prop), TRUE))
  ELSE AddProperty(acc, prop.key, ProcessZodNode(zst, prop.value),
                   ~(IsOptional(prop.value) \/ HasOptionalMethod(prop.value)))

\* The last block of the property loop (lines 845-858).
PlainProperty(zst, acc, prop) ==
  AddProperty(acc, prop.key, ProcessZodNode(zst, prop.value),
              ~(IsOptional(prop.value) \/ HasOptionalMethod(prop.value)))

\* One iteration of objectExpression.properties.forEach (lines 738-859).
ProcessZodProperty(zst, acc, prop) ==
  IF prop.value.t = "call" /\ prop.value.object.t = "id"
  THEN MemberCallProperty(EnsureConverted(zst, prop.value.object.name),
                          acc, prop)
  ELSE IF prop.value.t = "id"
  THEN PlainProperty(EnsureConverted(zst, prop.value.name),
                     SetProperty(acc, prop.key, SchemaRef(prop.value.name),
                                 TRUE),
                     prop)
  ELSE PlainProperty(zst, acc, prop)

RECURSIVE ProcessZodProperties(_, _, _)
ProcessZodProperties(r, props, i) ==
  IF i > Len(props) THEN r
  ELSE ProcessZodProperties(ProcessZodProperty(r.st, r.v, props[i]),
                            props, i + 1)

\* const schema = { type: "object", properties };
\* if (required.length > 0) schema.required = required
ObjectSchema(r) ==
  R(r.st,
    IF Len(r.v.required) > 0
    THEN [type |-> "object", properties |-> r.v.properties,
          required |-> r.v.required]
    ELSE [type |-> "object", properties |-> r.v.properties])

\* processZodObject
ProcessZodObject(zst, node) ==
  IF Len(node.args) = 0 \/ node.args[1].t # "objexpr"
  THEN R(zst, [type |-> "object"])
  ELSE ObjectSchema(
         ProcessZodProperties(
           R(zst, [properties |-> <<>>, required |-> <<>>]),
           node.args[1].props, 1))

\* schema.description = description, when the call is describe("...")
Described(r, node) == R(r.st, WithDescription(r.v, node))

\* processZodPrimitive, for string, number, boolean and object
ProcessZodPrimitive(zst, node) ==
  CASE node.method \in {"string", "number", "boolean"} ->
         R(zst, WithDescription([type |-> node.method], node))
    [] node.method = "object" ->
         IF Len(node.args) > 0
         THEN Described(ProcessZodObject(zst, node), node)
         ELSE R(zst, WithDescription([type |-> "object"], node))
    [] OTHER -> R(zst, WithDescription([type |-> "string"], node))

\* The method switch applied to the processed parent chain.
Applied(r, node) == R(r.st, ApplyMethod(r.v, node))

\* arr.filter((item, index) => arr.indexOf(item) === index)
RemoveDuplicates(arr) ==
  LET First(i) == \A j \in 1..(i - 1) : arr[j] # arr[i]
      kept == {i \in 1..Len(arr) : First(i)}
      RECURSIVE Take(_)
      Take(i) == IF i > Len(arr) THEN <<>>
                 ELSE IF i \in kept THEN <<arr[i]>> \o Take(i + 1)
                 ELSE Take(i + 1)
  IN Take(1)

\* schema.required || []
RequiredOrNone(schema) ==
  IF "required" \in DOMAIN schema THEN schema.required ELSE <<>>

\* The merge of the extend case (lines 1239-1256): the base's properties
\* under the extension's, or the extension alone when the base schema has
\* no properties.
MergeExtension(baseSchema, ext) ==
  R(ext.st,
    IF "properties" \in DOMAIN baseSchema
    THEN Spread(
           [type |-> "object",
            properties |->
              AssignProperties(baseSchema.properties,
                IF "properties" \in DOMAIN ext.v THEN ext.v.properties
                ELSE <<>>, 1),
            required |-> RemoveDuplicates(RequiredOrNone(baseSchema)
                                          \o RequiredOrNone(ext.v))],
           IF "description" \in DOMAIN baseSchema
              /\ baseSchema.description # ""
           THEN [description |-> baseSchema.description] ELSE EmptySchema)
    ELSE ext.v)

\* The extend case of processZodChain: the base is what processZodNode
\* makes of the expression extend is called on, the extension what
\* processZodObject makes of z.object(<the argument>).
ExtendChain(base, node) ==
  MergeExtension(base.v,
    ProcessZodObject(base.st, ZCall(ZId("z"), "object", <<node.args[1]>>)))

\* processZodChain
ProcessZodChain(zst, node) ==
  IF node.method = "extend" /\ Len(node.args) > 0
     /\ node.args[1].t = "objexpr"
  THEN ExtendChain(
         ProcessZodNode(ProcessZodNode(zst, node.object).st, node.object),
         node)
  ELSE Applied(ProcessZodNode(zst, node.object), node)

\* processZodLazy
ProcessZodLazy(zst, node) ==
  IF Len(node.args) > 0 /\ node.args[1].t = "arrow"
  THEN IF node.args[1].body.t = "id"
       THEN R(zst, SchemaRef(node.args[1].body.name))
       ELSE ProcessZodNode(zst, node.args[1].body)
  ELSE R(zst, [type |-> "object"])

\* processZodNode, for the expressions of the modelled subset: the branches
\* in the order of the source, the one for z.lazy after the one for every
\* z.<method>(...) call.
ProcessZodNode(zst, node) ==
  IF node.t = "call" /\ node.object.t = "id" /\ node.method = "extend"
  THEN ProcessZodChain(EnsureConverted(zst, node.object.name), node)
  ELSE IF node.t = "call" /\ node.object.t = "id" /\ node.object.name = "z"
  THEN IF node.method = "object" /\ Len(node.args) > 0
       THEN ProcessZodObject(zst, node)
       ELSE ProcessZodPrimitive(zst, node)
  ELSE IF node.t = "call" /\ node.object.t = "call"
  THEN ProcessZodChain(zst, node)
  ELSE IF node.t = "call" /\ node.object.t = "id" /\ node.object.name = "z"
          /\ node.method = "lazy" /\ Len(node.args) > 0
  THEN ProcessZodLazy(zst, node)
  ELSE R(zst, [type |-> "object"])

\* this.zodSchemas[name] = schema, around processingSchemas.add / delete
StorePreprocessed(r, name) ==
  [r.st EXCEPT !.zodSchemas = Put(@, name, r.v),
               !.processing = @ \ {name}]

RECURSIVE PreprocessAllSchemasInFile(_, _, _)
\* preprocessAllSchemasInFile: every exported Zod schema not converted yet
PreprocessAllSchemasInFile(zst, file, i) ==
  IF i > Len(file.exports) THEN zst
  ELSE PreprocessAllSchemasInFile(
         IF IsZodSchema(file.exports[i].init)
            /\ file.exports[i].name \notin DOMAIN zst.zodSchemas
         THEN StorePreprocessed(
                ProcessZodNode(
                  [zst EXCEPT !.processing = @ \cup {file.exports[i].name}],
                  file.exports[i].init),
                file.exports[i].name)
         ELSE zst,
         file, i + 1)

\* this.zodSchemas[schemaName] = schema
StoreSchema(r, name) == [r.st EXCEPT !.zodSchemas = Put(@, name, r.v)]

RECURSIVE VisitDeclarations(_, _, _, _)
\* The traversal of processFileForZodSchema: for the declaration named
\* schemaName, the ExportNamedDeclaration visitor and then the
\* VariableDeclarator visitor.
VisitDeclarations(zst, file, i, name) ==
  IF i > Len(file.exports) THEN zst
  ELSE IF file.exports[i].name # name
  THEN VisitDeclarations(zst, file, i + 1, name)
  ELSE VisitDeclarations(
         StoreSchema(
           ProcessZodNode(
             IF file.exports[i].init.t = "call"
                /\ (\/ file.exports[i].init.method = "extend"
                    \/ /\ file.exports[i].init.object.t = "id"
                       /\ file.exports[i].init.object.name = "z")
             THEN StoreSchema(ProcessZodNode(zst, file.exports[i].init), name)
             ELSE zst,
             file.exports[i].init),
           name),
         file, i + 1, name)

\* The rest of processFileForZodSchema, after the pre-processing.
AfterPreprocessing(zst, file, name) ==
  IF name \in DOMAIN zst.zodSchemas THEN zst
  ELSE VisitDeclarations(zst, file, 1, name)

\* processFileForZodSchema
ProcessFileForZodSchema(zst, file, name) ==
  IF ~file.parses \/ name \notin file.mentions THEN zst
  ELSE AfterPreprocessing(PreprocessAllSchemasInFile(zst, file, 1),
                          file, name)

RECURSIVE ScanDirectoryForZodSchema(_, _, _)
\* scanDirectoryForZodSchema
ScanDirectoryForZodSchema(zst, i, name) ==
  IF i > Len(zst.files) THEN zst
  ELSE ScanDirectoryForZodSchema(
         ProcessFileForZodSchema(zst, zst.files[i], name), i + 1, name)

\* The return of convertZodSchemaToOpenApi and its finally block.
FoundOrNull(zst, name) ==
  R([zst EXCEPT !.processing = @ \ {name}],
    IF name \in DOMAIN zst.zodSchemas THEN zst.zodSchemas[name] ELSE Null)

RECURSIVE ScanFileForTypeMappings(_, _, _)
\* scanFileForTypeMappings: every alias `type T = z.infer<typeof S>` of the
\* file maps T to S; a file that does not parse adds nothing.
ScanFileForTypeMappings(zst, file, i) ==
  IF ~file.parses \/ i > Len(file.aliases) THEN zst
  ELSE ScanFileForTypeMappings(
         [zst EXCEPT !.mapping = Put(@, file.aliases[i].type,
                                     file.aliases[i].schema)],
         file, i + 1)

RECURSIVE ScanDirectoryForTypeMappings(_, _)
\* scanDirectoryForTypeMappings
ScanDirectoryForTypeMappings(zst, i) ==
  IF i > Len(zst.files) THEN zst
  ELSE ScanDirectoryForTypeMappings(
         ScanFileForTypeMappings(zst, zst.files[i], 1), i + 1)

\* preScanForTypeMappings; the route files hold no type alias.
PreScanForTypeMappings(zst) ==
  ScanDirectoryForTypeMappings(
    [zst EXCEPT !.preScans = IF @ < MaxPreScans THEN @ + 1 ELSE @], 1)

\* if (Object.keys(this.typeToSchemaMapping).length === 0)
\*   this.preScanForTypeMappings()
PreScanned(zst) ==
  IF DOMAIN zst.mapping = {} THEN PreScanForTypeMappings(zst) ELSE zst

\* const mappedSchemaName = this.typeToSchemaMapping[schemaName]
MappedSchemaName(zst, schemaName) ==
  IF schemaName \in DOMAIN zst.mapping THEN zst.mapping[schemaName]
  ELSE schemaName

\* convertZodSchemaToOpenApi after the pre-scan and the renaming
ConvertMapped(zst, name) ==
  IF name \in zst.processing THEN R(zst, SchemaRef(name))
  ELSE IF name \in DOMAIN zst.zodSchemas
  THEN R(zst, zst.zodSchemas[name])
  ELSE FoundOrNull(
         ScanDirectoryForZodSchema(
           [zst EXCEPT !.processing = @ \cup {name}], 1, name),
         name)

\* convertZodSchemaToOpenApi
ConvertZodSchemaToOpenApi(zst, name) ==
  ConvertMapped(PreScanned(zst), MappedSchemaName(PreScanned(zst), name))

VARIABLES
  project,                  \* the declaration files under schemaDir
  openapiDefinitions,       \* SchemaProcessor.openapiDefinitions
  typeDefinitions,          \* SchemaProcessor.typeDefinitions
  processSchemaTracker,     \* SchemaProcessor.processSchemaTracker
  processingTypes,          \* SchemaProcessor.processingTypes
  isResolvingPickOmitBase,  \* SchemaProcessor.isResolvingPickOmitBase
  contentType,              \* SchemaProcessor.contentType
  overflow,                 \* the call stack was exhausted (RangeError)
  requested,                \* the data types of the last getSchemaContent call
  returned,                 \* what the last call returned
  zodSchemas,               \* ZodSchemaConverter.zodSchemas
  processingSchemas,        \* ZodSchemaConverter.processingSchemas
  typeToSchemaMapping,      \* ZodSchemaConverter.typeToSchemaMapping
  preScans,                 \* the runs of preScanForTypeMappings so far
  apiDir,                   \* the route files under apiDir
  config,                   \* RouteProcessor.config
  swaggerPaths,             \* RouteProcessor.swaggerPaths
  routeOrder,               \* the keys of swaggerPaths, in creation order
  processFileTracker,       \* RouteProcessor.processFileTracker
  aborted                   \* an error left scanApiRoutes

vars == <<project, openapiDefinitions, typeDefinitions, processSchemaTracker,
          processingTypes, isResolvingPickOmitBase, contentType, overflow,
          requested, returned, zodSchemas, processingSchemas,
          typeToSchemaMapping, preScans, apiDir,
          config, swaggerPaths, routeOrder, processFileTracker, aborted>>

zodVars == <<zodSchemas, processingSchemas, typeToSchemaMapping, preScans>>

routeVars ==
  <<apiDir, config, swaggerPaths, routeOrder, processFileTracker, aborted>>

\* The processor's fields, as the record the resolution operators thread.
Session ==
  [defs |-> openapiDefinitions, tdefs |-> typeDefinitions,
   tracker |-> processSchemaTracker, processing |-> processingTypes,
   flag |-> isResolvingPickOmitBase, ctype |-> contentType,
   files |-> project, depth |-> 0, overflow |-> FALSE,
   schemaType |-> config.schemaType,
   zod |-> [zodSchemas |-> zodSchemas, processing |-> processingSchemas,
            files |-> project, mapping |-> typeToSchemaMapping,
            preScans |-> preScans]]

\* ------------------------------------------------------ getSchemaContent
\* `undefined`, as read from openapiDefinitions for an unregistered name.
Undefined == [undefined |-> TRUE]

NoTypes ==
  [paramsType |-> "", pathParamsType |-> "", bodyType |-> "",
   responseType |-> ""]

Roles == {"params", "pathParams", "body", "response"}

DataTypesFor(role, name) ==
  [paramsType |-> IF role = "params" THEN name ELSE "",
   pathParamsType |-> IF role = "pathParams" THEN name ELSE "",
   bodyType |-> IF role = "body" THEN name ELSE "",
   responseType |-> IF role = "response" THEN name ELSE ""]

\* typeName ? this.openapiDefinitions[typeName] : {}
InitialLookup(defs, typeName) ==
  IF typeName = "" THEN EmptySchema
  ELSE IF typeName \in DOMAIN defs THEN defs[typeName] ELSE Undefined

\* openapiDefinitions[typeName] || {}
RegisteredOrEmpty(found, typeName) ==
  R(found, IF typeName \in DOMAIN found.defs
           THEN found.defs[typeName] ELSE EmptySchema)

\* if (typeName && !schema) { findSchemaDefinition(typeName, role);
\*                            schema = openapiDefinitions[typeName] || {} }
LookupStep(st, typeName, first, role) ==
  IF typeName # "" /\ first = Undefined
  THEN RegisteredOrEmpty(FindSchemaDefinition(st, typeName, role), typeName)
  ELSE R(st, first)

\* [paramsType, pathParamsType, bodyType, responseType].filter(Boolean)
SchemasToProcess(dt) ==
  LET Named(name) == name # ""
  IN SelectSeq(<<dt.paramsType, dt.pathParamsType, dt.bodyType,
                 dt.responseType>>, Named)

RECURSIVE ProcessRemaining(_, _, _)
\* schemasToProcess.forEach(...): with schemaType zod, every name still
\* unregistered is looked for once more (lines 957-969).
ProcessRemaining(st, names, i) ==
  IF st.schemaType # "zod" \/ i > Len(names) THEN st
  ELSE ProcessRemaining(
         IF names[i] \notin DOMAIN st.defs
         THEN FindSchemaDefinition(st, names[i], "") ELSE st,
         names, i + 1)

\* getSchemaContent: the four lookups read openapiDefinitions first, then
\* each missing one is resolved in turn.
GetSchemaContent(st, dt) ==
  Bind(LookupStep(st, dt.paramsType,
                  InitialLookup(st.defs, dt.paramsType), "params"),
    LAMBDA p :
  Bind(LookupStep(p.st, dt.pathParamsType,
                  InitialLookup(st.defs, dt.pathParamsType), "pathParams"),
    LAMBDA pp :
  Bind(LookupStep(pp.st, dt.bodyType,
                  InitialLookup(st.defs, dt.bodyType), "body"),
    LAMBDA b :
  Bind(LookupStep(b.st, dt.responseType,
                  InitialLookup(st.defs, dt.responseType), "response"),
    LAMBDA r :
  R(ProcessRemaining(r.st, SchemasToProcess(dt), 1),
    [params |-> p.v, pathParams |-> pp.v, body |-> b.v,
     responses |-> r.v])))))

\* ------------------------------------------------------- JSDoc directives
\* One leading comment, by directive: params, pathParams, body and response
\* name a type ("" when the directive is absent), code is the status written
\* before the response type, responseSet the comma-separated set names and
\* add the comma-separated entries code or code:Schema, both already split;
\* tag and contentType hold the directive's text, openapi tells whether the
\* comment contains @openapi.
Comment(body, response, code, responseSet, add) ==
  [body |-> body, response |-> response, code |-> code,
   responseSet |-> responseSet, add |-> add, openapi |-> FALSE,
   params |-> "", pathParams |-> "", contentType |-> "", tag |-> ""]

\* A comment holding no directive, as  // eslint-disable-next-line  is.
PlainComment == Comment("", "", "", <<>>, <<>>)

AddEntry(code, ref) == [code |-> code, ref |-> ref]

\* The values extractJSDocComments starts from.
NoDirectives ==
  [tag |-> "", paramsType |-> "", pathParamsType |-> "", bodyType |-> "",
   responseType |-> "", successCode |-> "", responseSet |-> <<>>,
   addResponses |-> <<>>, isOpenApi |-> FALSE, contentType |-> "",
   bodyDescription |-> "", responseDescription |-> ""]

\* The body of comments.forEach (lines 47-162): isOpenApi is assigned for
\* every comment, every other field only when its directive is present.
\* "@responseSet" contains "@response", and extractTypeFromComment then
\* reads the word "Set" as the response type unless a directive
\* "@response <type>" follows the pattern with a space.
ExtractFromComment(dataTypes, comment) ==
  [tag |-> IF comment.tag # "" THEN comment.tag ELSE dataTypes.tag,
   paramsType |-> IF comment.params # "" THEN comment.params
                  ELSE dataTypes.paramsType,
   pathParamsType |-> IF comment.pathParams # "" THEN comment.pathParams
                      ELSE dataTypes.pathParamsType,
   bodyType |-> IF comment.body # "" THEN comment.body
                ELSE dataTypes.bodyType,
   responseType |-> IF comment.response # "" THEN comment.response
                    ELSE IF Len(comment.responseSet) > 0 THEN "Set"
                    ELSE dataTypes.responseType,
   successCode |-> IF comment.response # "" THEN comment.code
                   ELSE dataTypes.successCode,
   responseSet |-> IF Len(comment.responseSet) > 0 THEN comment.responseSet
                   ELSE dataTypes.responseSet,
   addResponses |-> IF Len(comment.add) > 0 THEN comment.add
                    ELSE dataTypes.addResponses,
   isOpenApi |-> comment.openapi,
   contentType |-> IF comment.contentType # "" THEN comment.contentType
                   ELSE dataTypes.contentType,
   bodyDescription |-> dataTypes.bodyDescription,
   responseDescription |-> dataTypes.responseDescription]

RECURSIVE ExtractJSDocComments(_, _, _)
\* extractJSDocComments: path.node.leadingComments, in source order
ExtractJSDocComments(comments, i, dataTypes) ==
  IF i > Len(comments) THEN dataTypes
  ELSE ExtractJSDocComments(comments, i + 1,
                            ExtractFromComment(dataTypes, comments[i]))

\* The four type names getSchemaContent reads from the data types.
TypeNames(dataTypes) ==
  [paramsType |-> dataTypes.paramsType,
   pathParamsType |-> dataTypes.pathParamsType,
   bodyType |-> dataTypes.bodyType,
   responseType |-> dataTypes.responseType]

\* --------------------------------------------------------- RouteProcessor
HTTP_METHODS == {"GET", "POST", "PUT", "PATCH", "DELETE"}

MUTATION_HTTP_METHODS == {"PATCH", "POST", "PUT"}

\* getDefaultSuccessCode
GetDefaultSuccessCode(method) ==
  CASE method = "POST" -> "201"
    [] method = "DELETE" -> "204"
    [] OTHER -> "200"

\* getDefaultErrorDescription, with the fallback of its caller
GetDefaultErrorDescription(code) ==
  CASE code = "400" -> "Bad Request"
    [] code = "401" -> "Unauthorized"
    [] code = "403" -> "Forbidden"
    [] code = "404" -> "Not Found"
    [] code = "409" -> "Conflict"
    [] code = "422" -> "Unprocessable Entity"
    [] code = "429" -> "Too Many Requests"
    [] code = "500" -> "Internal Server Error"
    [] OTHER -> "HTTP " \o code

\* { $ref: `#/components/schemas/${code}` }: a mistaken target table.
SchemaTableRef(code) == [ref |-> <<"#", "components", "schemas", code>>]

\* { $ref: `#/components/responses/${code}` }
ResponseRef(code) == [ref |-> <<"#", "components", "responses", code>>]

\* { "application/json": { schema } }
JsonContent(schema) ==
  [x \in {"application/json"} |-> [schema |-> schema]]

\* The words of the model whose lower case contains "formdata", "fileupload"
\* or "multipart".
FormDataWords == {"UploadFormData", "FileUploadBody", "MultipartBody"}

\* The words of the model whose lower case contains "file".
FileWords == {"file", "avatarFile", "FileUploadBody"}

\* detectContentType
DetectContentType(bodyType, explicitContentType) ==
  IF explicitContentType # "" THEN explicitContentType
  ELSE IF bodyType # "" /\ bodyType \in FormDataWords
  THEN "multipart/form-data"
  ELSE "application/json"

\* The property createFormDataSchema writes for key.
FormDataProperty(key, value) ==
  IF /\ "type" \in DOMAIN value
     /\ value.type = "object"
     /\ \/ key \in FileWords
        \/ "description" \in DOMAIN value /\ value.description \in FileWords
  THEN IF "description" \in DOMAIN value
       THEN [type |-> "string", format |-> "binary",
             description |-> value.description]
       ELSE [type |-> "string", format |-> "binary"]
  ELSE value

\* createFormDataSchema
CreateFormDataSchema(body) ==
  IF "properties" \notin DOMAIN body THEN body
  ELSE Spread(body,
         [properties |->
            [i \in 1..Len(body.properties) |->
               [name |-> body.properties[i].name,
                schema |-> FormDataProperty(body.properties[i].name,
                                            body.properties[i].schema)]]])

\* The schema createRequestBodySchema puts under the content type.
BodySchemaFor(detected, body) ==
  IF detected = "multipart/form-data" THEN CreateFormDataSchema(body)
  ELSE body

\* createRequestBodySchema: detectContentType is given body?.type || "".
CreateRequestBodySchema(body, description, ctype) ==
  LET detected == DetectContentType(
                    IF "type" \in DOMAIN body THEN body.type ELSE "", ctype)
      requestBody ==
        [content |-> [x \in {detected} |->
                        [schema |-> BodySchemaFor(detected, body)]]]
  IN IF description # ""
     THEN Spread(requestBody, [description |-> description])
     ELSE requestBody

\* createResponseSchema
CreateResponseSchema(responses, description) ==
  [x \in {"200"} |->
     [description |-> IF description # "" THEN description
                      ELSE "Successful response",
      content |-> JsonContent(responses)]]

\* ------------------------------------------------------------ parameters
\* A route path is the sequence of its segments after the leading "/"; a
\* segment {name} is a placeholder.
Seg(name) == [name |-> name, param |-> FALSE]

ParamSeg(name) == [name |-> name, param |-> TRUE]

\* extractPathParameters
ExtractPathParameters(routePath) ==
  LET IsParam(segment) == segment.param
      found == SelectSeq(routePath, IsParam)
  IN [i \in 1..Len(found) |-> found[i].name]

\* An example value: a string or a number.
Example(kind, repr) == [kind |-> kind, repr |-> repr]

\* The parameter names of the model that are "id" or end in "Id" or "_id".
IdLikeNames == {"id", "userId", "orderId", "user_id"}

\* The parameter names of the model that are "id" or end in "Id".
IdNames == {"id", "userId", "orderId"}

\* getExampleForParam; type defaults to "string"
GetExampleForParam(paramName, type) ==
  IF paramName \in IdLikeNames
  THEN IF type = "string" THEN Example("string", "123")
       ELSE Example("number", "123")
  ELSE CASE paramName = "slug" -> Example("string", "slug")
         [] paramName = "uuid" ->
              Example("string", "123e4567-e89b-12d3-a456-426614174000")
         [] paramName = "username" -> Example("string", "johndoe")
         [] paramName = "email" -> Example("string", "user@example.com")
         [] paramName = "name" -> Example("string", "name")
         [] paramName = "date" -> Example("string", "2023-01-01")
         [] paramName = "page" -> Example("number", "1")
         [] paramName = "role" -> Example("string", "admin")
         [] type = "string" -> Example("string", "example")
         [] type = "number" -> Example("number", "1")
         [] type = "boolean" -> Example("boolean", "true")
         [] OTHER -> Example("string", "example")

\* createDefaultPathParamsSchema
CreateDefaultPathParamsSchema(paramNames) ==
  [i \in 1..Len(paramNames) |->
     LET type == IF paramNames[i] \in IdNames
                    \/ paramNames[i] \in {"page", "limit", "size", "count"}
                 THEN "number" ELSE "string"
     IN [name |-> paramNames[i], in |-> "path", required |-> TRUE,
         schema |-> [type |-> type],
         example |-> GetExampleForParam(paramNames[i], type),
         description |-> "Path parameter: " \o paramNames[i]]]

\* A parameter location that forgets path parameters.
AlwaysQuery(isPathParam) == "query"

\* in: isPathParam ? "path" : "query"
ParamLocation(isPathParam) == IF isPathParam THEN "path" ELSE "query"

\* if (value.description): a missing key and "" are falsy.
HasDescription(value) ==
  "description" \in DOMAIN value /\ value.description # ""

\* !!value.required: the resolvers write required as an array only, and
\* every array is truthy.
IsRequired(value) == "required" \in DOMAIN value

\* One iteration of the loop of createRequestParamsSchema.
ParamSchema(name, value, isPathParam) ==
  Spread(
    Spread(
      [in |-> ParamLocation(isPathParam), name |-> name,
       schema |->
         Spread(
           Spread(IF "type" \in DOMAIN value THEN [type |-> value.type]
                  ELSE EmptySchema,
                  IF "enum" \in DOMAIN value THEN [enum |-> value.enum]
                  ELSE EmptySchema),
           IF HasDescription(value)
           THEN [description |-> value.description] ELSE EmptySchema),
       required |-> IF isPathParam THEN TRUE ELSE IsRequired(value)],
      IF HasDescription(value)
      THEN [description |-> value.description] ELSE EmptySchema),
    IF isPathParam
    THEN [example |-> GetExampleForParam(name,
                        IF "type" \in DOMAIN value THEN value.type
                        ELSE "string")]
    ELSE EmptySchema)

\* createRequestParamsSchema
CreateRequestParamsSchema(params, isPathParam) ==
  IF "properties" \in DOMAIN params
  THEN [i \in 1..Len(params.properties) |->
          ParamSchema(params.properties[i].name, params.properties[i].schema,
                      isPathParam)]
  ELSE <<>>

\* 1. the success response, when a response type is declared
SuccessResponse(dataTypes, method, responseSchema) ==
  IF dataTypes.responseType # ""
  THEN [x \in {IF dataTypes.successCode # "" THEN dataTypes.successCode
               ELSE GetDefaultSuccessCode(method)} |->
          [description |-> IF dataTypes.responseDescription # ""
                           THEN dataTypes.responseDescription
                           ELSE "Successful response",
           content |-> JsonContent(responseSchema)]]
  ELSE EmptySchema

RECURSIVE AddCodes(_, _, _)
\* responseSet.forEach(errorCode => responses[errorCode] = { $ref })
AddCodes(responses, codes, i) ==
  IF i > Len(codes) THEN responses
  ELSE AddCodes(Put(responses, codes[i], ResponseRef(codes[i])), codes, i + 1)

RECURSIVE AddResponseSets(_, _, _, _)
\* setNames.forEach(...): a name the configuration does not define is skipped
AddResponseSets(responses, setNames, responseSets, i) ==
  IF i > Len(setNames) THEN responses
  ELSE AddResponseSets(
         IF setNames[i] \in DOMAIN responseSets
         THEN AddCodes(responses, responseSets[setNames[i]], 1)
         ELSE responses,
         setNames, responseSets, i + 1)

RECURSIVE AddCustomResponses(_, _, _)
\* 3. the @add entries: code:Schema is an inline response, code a $ref
AddCustomResponses(responses, entries, i) ==
  IF i > Len(entries) THEN responses
  ELSE AddCustomResponses(
         Put(responses, entries[i].code,
             IF entries[i].ref # ""
             THEN [description |-> GetDefaultErrorDescription(entries[i].code),
                   content |-> JsonContent(SchemaRef(entries[i].ref))]
             ELSE ResponseRef(entries[i].code)),
         entries, i + 1)

\* The set names in force: the handler's, else the configured default.
ResponseSetName(dataTypes, cfg) ==
  IF Len(dataTypes.responseSet) > 0 THEN dataTypes.responseSet
  ELSE cfg.defaultResponseSet

\* Steps 1 to 3 of buildResponsesFromConfig, given the response schema.
AssembleResponses(dataTypes, method, cfg, responseSchema) ==
  AddCustomResponses(
    IF Len(ResponseSetName(dataTypes, cfg)) > 0
       /\ ResponseSetName(dataTypes, cfg) # <<"none">>
    THEN AddResponseSets(SuccessResponse(dataTypes, method, responseSchema),
                         ResponseSetName(dataTypes, cfg),
                         cfg.responseSets, 1)
    ELSE SuccessResponse(dataTypes, method, responseSchema),
    dataTypes.addResponses, 1)

ResponsesFrom(r, dataTypes, method, cfg) ==
  R(r.st, AssembleResponses(dataTypes, method, cfg, r.v.responses))

\* buildResponsesFromConfig: getSchemaContent({ responseType }) is called
\* only when a response type is declared.
BuildResponsesFromConfig(st, dataTypes, method, cfg) ==
  IF dataTypes.responseType # ""
  THEN ResponsesFrom(
         GetSchemaContent(st, DataTypesFor("response", dataTypes.responseType)),
         dataTypes, method, cfg)
  ELSE R(st, AssembleResponses(dataTypes, method, cfg, EmptySchema))

\* capitalize, on the first segments of the model
Capitalize(word) ==
  CASE word = "users" -> "Users"
    [] word = "orders" -> "Orders"
    [] word = "admin" -> "Admin"
    [] OTHER -> word

\* capitalize(routePath.split("/")[1])
RootPath(routePath) ==
  IF routePath[1].param THEN "{" \o routePath[1].name \o "}"
  ELSE Capitalize(routePath[1].name)

\* if (!schema), for what getSchemaContent returns
Falsy(schema) == schema = Undefined

\* The path parameters pushed after the query parameters (lines 574-596).
PathParameters(pathParams, pathParamNames) ==
  IF Len(pathParamNames) > 0
  THEN IF Falsy(pathParams)
       THEN CreateDefaultPathParamsSchema(pathParamNames)
       ELSE CreateRequestParamsSchema(pathParams, TRUE)
  ELSE IF ~Falsy(pathParams)
  THEN CreateRequestParamsSchema(pathParams, TRUE)
  ELSE <<>>

\* definition.parameters
Parameters(content, routePath) ==
  (IF ~Falsy(content.params)
   THEN CreateRequestParamsSchema(content.params, FALSE) ELSE <<>>)
  \o PathParameters(content.pathParams, ExtractPathParameters(routePath))

\* The route definition's tags and parameters.
Operation(content, dataTypes, routePath) ==
  [tags |-> <<IF dataTypes.tag # "" THEN dataTypes.tag
              ELSE RootPath(routePath)>>,
   parameters |-> Parameters(content, routePath)]

\* The route definition's request body and responses; the old logic applies
\* when buildResponsesFromConfig returned no entry.
Definition(content, built, dataTypes, method, routePath) ==
  R(built.st,
    Spread(
      Spread(
        Operation(content, dataTypes, routePath),
        IF method \in MUTATION_HTTP_METHODS
        THEN [requestBody |->
                CreateRequestBodySchema(content.body,
                                        dataTypes.bodyDescription,
                                        dataTypes.contentType)]
        ELSE EmptySchema),
      [responses |->
         IF DOMAIN built.v = {}
         THEN CreateResponseSchema(content.responses,
                                   dataTypes.responseDescription)
         ELSE built.v]))

DefinitionFrom(sc, dataTypes, method, cfg, routePath) ==
  Definition(sc.v, BuildResponsesFromConfig(sc.st, dataTypes, method, cfg),
             dataTypes, method, routePath)

\* this.swaggerPaths[routePath][method] = definition; order lists the
\* (path, method) keys in the order they were created.
RecordRoute(rst, def, routePath, method) ==
  [proc |-> def.st,
   paths |-> Put(rst.paths, routePath,
                 Put(IF routePath \in DOMAIN rst.paths
                     THEN rst.paths[routePath] ELSE EmptySchema,
                     method, def.v)),
   order |-> IF <<routePath, method>> \in SeqToSet(rst.order) THEN rst.order
             ELSE Append(rst.order, <<routePath, method>>)]

\* addRouteToPaths; rst is [proc, paths, order]
AddRouteToPaths(rst, varName, routePath, dataTypes, cfg) ==
  IF cfg.includeOpenApiRoutes /\ ~dataTypes.isOpenApi THEN rst
  ELSE RecordRoute(rst,
         DefinitionFrom(GetSchemaContent(rst.proc, TypeNames(dataTypes)),
                        dataTypes, varName, cfg, routePath),
         routePath, varName)

\* path.node.leadingComments of an exported handler
LeadingComments(handler) == <<handler.comment>> \o handler.others

\* extractJSDocComments(path)
DataTypesOf(handler) ==
  ExtractJSDocComments(LeadingComments(handler), 1, NoDirectives)

RECURSIVE VisitHandlers(_, _, _, _)
\* The traversal of processFile: every exported handler named after an
\* HTTP method, in source order.
VisitHandlers(rst, file, i, cfg) ==
  IF i > Len(file.handlers) THEN rst
  ELSE VisitHandlers(
         IF file.handlers[i].name \in HTTP_METHODS
            /\ (~cfg.includeOpenApiRoutes
                \/ DataTypesOf(file.handlers[i]).isOpenApi)
         THEN AddRouteToPaths(rst, file.handlers[i].name, file.route,
                              DataTypesOf(file.handlers[i]), cfg)
         ELSE rst,
         file, i + 1, cfg)

RECURSIVE ScanApiRoutes(_, _, _, _)
\* scanApiRoutes: files.forEach(file => this.processFile(filePath)), for
\* files that parse
ScanApiRoutes(rst, files, i, cfg) ==
  IF i > Len(files) THEN rst
  ELSE ScanApiRoutes(VisitHandlers(rst, files[i], 1, cfg), files, i + 1, cfg)

\* ---------------------------------------------------------- path order
\* The tags of the model, in the order localeCompare puts them.
TagOrder == <<"", "Accounts", "Admin", "Orders", "Users">>

\* a.localeCompare(b): negative, zero or positive
LocaleCompare(a, b) ==
  (CHOOSE i \in 1..Len(TagOrder) : TagOrder[i] = a)
  - (CHOOSE i \in 1..Len(TagOrder) : TagOrder[i] = b)

\* Object.keys(paths): the paths in the order their first route was recorded
RECURSIVE PathKeys(_, _, _)
PathKeys(order, i, acc) ==
  IF i > Len(order) THEN acc
  ELSE PathKeys(order, i + 1,
                IF order[i][1] \in SeqToSet(acc) THEN acc
                ELSE Append(acc, order[i][1]))

\* Object.values(methods).flatMap(m => m.tags || [])[0] || ""
PrimaryTag(paths, order, key) ==
  LET Keyed(entry) == entry[1] = key
      methods == SelectSeq(order, Keyed)
  IN IF Len(methods) = 0 THEN ""
     ELSE paths[key][methods[1][2]].tags[1]

\* comparePaths: the first tags, then the numbers of segments
ComparePaths(paths, order, a, b) ==
  IF LocaleCompare(PrimaryTag(paths, order, a),
                   PrimaryTag(paths, order, b)) # 0
  THEN LocaleCompare(PrimaryTag(paths, order, a), PrimaryTag(paths, order, b))
  ELSE (Len(a) + 1) - (Len(b) + 1)

\* Array.prototype.sort is stable: key goes behind every element that does
\* not compare greater than it.
InsertSorted(paths, order, sorted, key) ==
  LET NotGreater(x) == ComparePaths(paths, order, x, key) <= 0
      Greater(x) == ComparePaths(paths, order, x, key) > 0
  IN SelectSeq(sorted, NotGreater) \o <<key>> \o SelectSeq(sorted, Greater)

RECURSIVE SortKeys(_, _, _, _, _)
SortKeys(paths, order, keys, i, sorted) ==
  IF i > Len(keys) THEN sorted
  ELSE SortKeys(paths, order, keys, i + 1,
                InsertSorted(paths, order, sorted, keys[i]))

\* getSortedPaths: the keys of the object it returns, in order
GetSortedPaths(paths, order, keys) == SortKeys(paths, order, keys, 1, <<>>)

\* getSwaggerPaths sorts twice
GetSwaggerPaths(paths, order) ==
  GetSortedPaths(paths, order,
                 GetSortedPaths(paths, order, PathKeys(order, 1, <<>>)))

\* --------------------------------------------------- declaration projects
\* The declared names: Base is the object type under study, User a second
\* object type, View an alias Pick<Base, K> or Omit<Base, K>; Missing is
\* declared nowhere.
UserDecl ==
  TypeLit(<<Member("name", Kw("string"), FALSE),
            Member("email", Kw("string"), TRUE)>>)

KeysNode(keys) ==
  IF Len(keys) = 1 THEN Lit("string", keys[1])
  ELSE Union([i \in 1..Len(keys) |-> Lit("string", keys[i])])

\* The members Base may declare.
MemberPool ==
  { Member("name", Kw("string"), TRUE),
    Member("owner", TRef("User"), FALSE),
    Member("parent", TRef("Base"), TRUE),
    Member("replies", Arr(TRef("Base")), FALSE) }

\* Every order of every choice of 1..MaxMembers distinct members.
MemberLists ==
  UNION { { s \in [1..n -> MemberPool] :
              \A i, j \in 1..n : i # j => s[i].name # s[j].name }
          : n \in 1..MaxMembers }

SourceFile(path, decls) ==
  [path |-> path, decls |-> decls, parses |-> TRUE, exports |-> <<>>,
   mentions |-> {}, aliases |-> <<>>]

\* One declaration file, or Base (and View) in one file and User in the next.
Layouts(baseDecls) ==
  { <<SourceFile("types.ts", Put(baseDecls, "User", UserDecl))>>,
    <<SourceFile("base.ts", baseDecls),
      SourceFile("user.ts", [n \in {"User"} |-> UserDecl])>> }

CycleProjects ==
  UNION { Layouts([n \in {"Base"} |-> TypeLit(members)])
          : members \in MemberLists }

BaseDecl == project[1].decls["Base"]

\* ---------------------------------------------------------------- actions
\* The configuration the generator starts from when none is written.
ResponseSets ==
  [auth |-> <<"401", "403">>, common |-> <<"400", "500">>]

Config(defaultResponseSet) ==
  [includeOpenApiRoutes |-> FALSE, responseSets |-> ResponseSets,
   defaultResponseSet |-> defaultResponseSet, schemaType |-> "typescript"]

NoRoutes ==
  /\ apiDir = <<>>
  /\ config = Config(<<>>)

InitProcessor ==
  /\ openapiDefinitions = EmptySchema
  /\ typeDefinitions = EmptySchema
  /\ processSchemaTracker = {}
  /\ processingTypes = {}
  /\ isResolvingPickOmitBase = FALSE
  /\ contentType = ""
  /\ overflow = FALSE
  /\ requested = NoTypes
  /\ returned = Undefined
  /\ zodSchemas = EmptySchema
  /\ processingSchemas = {}
  /\ typeToSchemaMapping = EmptySchema
  /\ preScans = 0
  /\ swaggerPaths = EmptySchema
  /\ routeOrder = <<>>
  /\ processFileTracker = {}
  /\ aborted = FALSE

Init ==
  /\ project \in CycleProjects
  /\ NoRoutes
  /\ InitProcessor

\* One handler's getSchemaContent(dataTypes) call.
StoreSession(r) ==
  /\ openapiDefinitions' = r.st.defs
  /\ typeDefinitions' = r.st.tdefs
  /\ processSchemaTracker' = r.st.tracker
  /\ processingTypes' = r.st.processing
  /\ isResolvingPickOmitBase' = r.st.flag
  /\ contentType' = r.st.ctype
  /\ overflow' = r.st.overflow
  /\ zodSchemas' = r.st.zod.zodSchemas
  /\ processingSchemas' = r.st.zod.processing
  /\ typeToSchemaMapping' = r.st.zod.mapping
  /\ preScans' = r.st.zod.preScans
  /\ returned' = r.v

RequestSchema(dt) ==
  /\ ~overflow
  /\ StoreSession(GetSchemaContent(Session, dt))
  /\ requested' = dt
  /\ UNCHANGED <<project, routeVars>>

RequestedNames == {"Base", "User", "Missing"}

\* getPropertyOptions tells "body" from every other role.
RequestRoles == {"params", "body"}

Next ==
  \E role \in RequestRoles, name \in RequestedNames :
     RequestSchema(DataTypesFor(role, name))

Spec == Init /\ [][Next]_vars

\* ------------------------------------------------- self-reference (C1)
IsRefTo(schema, name) ==
  "ref" \in DOMAIN schema /\ schema.ref = SchemaRef(name).ref

RECURSIVE OccurrencesAreRefs(_, _, _)
\* Where the declared type mentions typeName, the schema holds the $ref.
OccurrencesAreRefs(type, schema, typeName) ==
  CASE type.t = "ref" /\ type.name = typeName -> IsRefTo(schema, typeName)
    [] type.t = "array" ->
         /\ "items" \in DOMAIN schema
         /\ OccurrencesAreRefs(type.elem, schema.items, typeName)
    [] OTHER -> TRUE

BaseSchema == openapiDefinitions["Base"]

BaseRegistered == "Base" \in DOMAIN openapiDefinitions

\* C1: when Base refers to itself, whatever its other members and their
\* order, every occurrence of Base inside the schema registered for Base is
\* the reference #/components/schemas/Base, never an inline copy.
C1_SelfReferenceIsRef ==
  BaseRegistered =>
    \A i \in 1..Len(BaseDecl.members) :
       OccurrencesAreRefs(BaseDecl.members[i].type,
                          PropGet(BaseSchema.properties,
                                  BaseDecl.members[i].name),
                          "Base")

\* --------------------------------------------------- required list (C2)
RequiredNames(members) ==
  {members[i].name : i \in {j \in 1..Len(members) : ~members[j].optional}}

\* C2: the schema of a resolved object type carries a required list naming
\* exactly the members declared without the ? marker.
C2_RequiredListNamesMandatoryMembers ==
  BaseRegistered =>
    /\ "required" \in DOMAIN BaseSchema
    /\ SeqToSet(BaseSchema.required) = RequiredNames(BaseDecl.members)

\* ------------------------------------------------ Pick and Omit (C3, C4)
\* Base's members here: plain, optional, of a named type, and of a type
\* that is itself a Pick of a named type.
PickMemberPool ==
  { Member("id", Kw("string"), FALSE),
    Member("name", Kw("string"), TRUE),
    Member("owner", TRef("User"), FALSE),
    Member("brief", Generic("Pick", <<TRef("User"), KeysNode(<<"name">>)>>),
           FALSE) }

PickMemberLists ==
  UNION { { s \in [1..n -> PickMemberPool] :
              \A i, j \in 1..n : i # j => s[i].name # s[j].name }
          : n \in 1..MaxMembers }

\* "role" is a key no Base declares.
KeyPool == {"id", "name", "brief", "role"}

KeyLists ==
  UNION { { s \in [1..n -> KeyPool] : \A i, j \in 1..n : i # j => s[i] # s[j] }
          : n \in 1..MaxKeys }

\* types.ts: User, Base and  type View = Pick<Base, K>  or  Omit<Base, K>.
PickProjects ==
  { <<SourceFile("types.ts",
        Put(Put([n \in {"User"} |-> UserDecl], "Base", TypeLit(members)),
            "View", Generic(util, <<TRef("Base"), KeysNode(keys)>>)))>>
    : members \in PickMemberLists, util \in {"Pick", "Omit"},
      keys \in KeyLists }

ViewDecl == project[1].decls["View"]

ViewKeys == SeqToSet(ExtractKeysFromLiteralType(ViewDecl.params[2]))

InitPick ==
  /\ project \in PickProjects
  /\ NoRoutes
  /\ InitProcessor

NextPick ==
  \E role \in RequestRoles, name \in {"View", "Base"} :
     RequestSchema(DataTypesFor(role, name))

SpecPick == InitPick /\ [][NextPick]_vars

\* A processor as the constructor leaves it, over the same files.
NewSession ==
  [defs |-> EmptySchema, tdefs |-> EmptySchema, tracker |-> {},
   processing |-> {}, flag |-> FALSE, ctype |-> "", files |-> project,
   depth |-> 0, overflow |-> FALSE, schemaType |-> config.schemaType,
   zod |-> NewConverter(project)]

\* The schema Base has when it is resolved by itself in the given role.
BaseAlone(role) ==
  GetSchemaContent(NewSession, DataTypesFor(role, "Base")).v[role]

\* The names Pick or Omit is to keep.
KeptNames ==
  IF ViewDecl.name = "Pick"
  THEN {m \in PropNames(BaseAlone("params").properties) : m \in ViewKeys}
  ELSE {m \in PropNames(BaseAlone("params").properties) : m \notin ViewKeys}

ViewIs(schema, role) ==
  /\ DOMAIN schema = {"type", "properties"}
  /\ schema.type = "object"
  /\ PropNames(schema.properties) = KeptNames
  /\ \A m \in KeptNames :
       PropGet(schema.properties, m) = PropGet(BaseAlone(role).properties, m)

\* C3: resolving View = Pick<Base, K> yields an object schema whose property
\* names are Base's property names that are in K, resolving Omit<Base, K>
\* one whose names are Base's that are not in K, and every kept property
\* has the schema it has in Base.
C3_PickOmitSelectProperties ==
  [][\A role \in RequestRoles :
       (/\ "View" \notin DOMAIN openapiDefinitions
        /\ requested' = DataTypesFor(role, "View"))
       => ViewIs(returned'[role], role)]_vars

\* A Pick or an Omit that kept a property and dropped another one.
C3_Witness ==
  /\ requested.bodyType = "View"
  /\ "properties" \in DOMAIN returned.body
  /\ KeptNames # {}
  /\ KeptNames # PropNames(BaseAlone("body").properties)
  /\ ViewKeys \ PropNames(BaseAlone("body").properties) # {}
  /\ PropNames(returned.body.properties) = KeptNames

\* C4: resolving Pick<Base, K> or Omit<Base, K> adds no entry named Base to
\* openapiDefinitions, whatever the types of Base's members.
C4_PickOmitLeavesBaseUnregistered ==
  [][(/\ ~BaseRegistered
      /\ \E role \in RequestRoles : requested' = DataTypesFor(role, "View"))
     => ~BaseRegistered']_vars

\* ------------------------------------------------- union types (C5, C6)
\* A literal type -1 is a TSLiteralType whose literal is a unary expression,
\* not a numeric literal.
UnionMemberPool ==
  { Lit("string", "a"), Lit("string", "b"), Lit("number", "1"),
    Lit("unary", "-1"), Lit("boolean", "true"),
    Kw("null"), Kw("undefined") }

\* types.ts:  type U = m1 | ... | mn
UnionProjects ==
  { <<SourceFile("types.ts", [n \in {"U"} |-> Union(types)])>>
    : types \in UNION { [1..n -> UnionMemberPool] : n \in 2..MaxUnion } }

UDecl == project[1].decls["U"]

InitUnion ==
  /\ project \in UnionProjects
  /\ NoRoutes
  /\ InitProcessor

NextUnion ==
  \E role \in RequestRoles : RequestSchema(DataTypesFor(role, "U"))

SpecUnion == InitUnion /\ [][NextUnion]_vars

IsLiteral(x) == x.t = "lit"

\* The primitive kind of the value a literal type denotes.
LiteralKind(lit) == IF lit.kind = "unary" THEN "number" ELSE lit.kind

LiteralValue(lit) == [kind |-> LiteralKind(lit), repr |-> lit.repr]

\* The schema the resolver gives the literal type when it stands alone.
SchemaOfLiteral(lit) == ResolveTSNodeType(NewSession, lit).v

OneLiteralPlusNullish ==
  /\ Len(SelectSeq(UDecl.types, IsLiteral)) = 1
  /\ Len(NullableTypes(UDecl)) = Len(UDecl.types) - 1

TheLiteral == SelectSeq(UDecl.types, IsLiteral)[1]

AllLiteralsOfOneKind ==
  /\ \A i \in 1..Len(UDecl.types) : IsLiteral(UDecl.types[i])
  /\ \A i \in 1..Len(UDecl.types) :
        LiteralKind(UDecl.types[i]) = LiteralKind(UDecl.types[1])

\* C6: a union whose members are all literals of one primitive kind resolves
\* to {type: <kind>, enum: [the literals in declaration order]}, no oneOf.
C6_SameKindLiteralsAreEnum ==
  \A role \in RequestRoles :
     (requested = DataTypesFor(role, "U") /\ AllLiteralsOfOneKind) =>
        returned[role] =
          [type |-> LiteralKind(UDecl.types[1]),
           enum |-> [i \in 1..Len(UDecl.types) |->
                       LiteralValue(UDecl.types[i])]]

\* ------------------------------------------- Zod required lists (C7)
RECURSIVE ChainOf(_, _)
\* root.m1(..).m2(..)...: min takes a number, describe a string.
ChainOf(root, calls) ==
  IF Len(calls) = 0 THEN root
  ELSE ZCall(ChainOf(root, SubSeq(calls, 1, Len(calls) - 1)),
             calls[Len(calls)],
             CASE calls[Len(calls)] = "min" -> <<ZNum(1)>>
               [] calls[Len(calls)] = "describe" -> <<ZStr("d")>>
               [] OTHER -> <<>>)

Markers == {"optional", "nullable", "nullish"}

ChainMethods == {"min", "describe"} \cup Markers

CallLists(lo) == UNION { [1..n -> ChainMethods] : n \in lo..MaxChain }

\* z.string()..., UserSchema.m1()... and the bare identifier UserSchema.
PropertyValues ==
  { ChainOf(ZCall(ZId("z"), "string", <<>>), calls) : calls \in CallLists(0) }
  \cup { ChainOf(ZId("UserSchema"), calls) : calls \in CallLists(0) }

UserSchemaInit ==
  ZCall(ZId("z"), "object",
        <<ZObjectExpr(<<ZProp("name", ZCall(ZId("z"), "string", <<>>))>>)>>)

Export(name, init) == [name |-> name, init |-> init]

ZodFile(path, exports) ==
  [path |-> path, exports |-> exports, parses |-> TRUE, aliases |-> <<>>,
   mentions |-> {"z", "UserSchema"}
                \cup {exports[i].name : i \in 1..Len(exports)}]

\* schemas.ts exports UserSchema and Target = z.object({...}) in either
\* order; Target holds the property p and a sibling id: z.string().
ZodProjects ==
  { <<ZodFile("schemas.ts", exports)>> :
      exports \in UNION {
        { <<Export("UserSchema", UserSchemaInit),
            Export("Target", ZCall(ZId("z"), "object", <<ZObjectExpr(props)>>))>>,
          <<Export("Target", ZCall(ZId("z"), "object", <<ZObjectExpr(props)>>)),
            Export("UserSchema", UserSchemaInit)>> }
        : props \in UNION {
            { <<ZProp("p", value), ZProp("id", ZCall(ZId("z"), "string", <<>>))>>,
              <<ZProp("id", ZCall(ZId("z"), "string", <<>>)), ZProp("p", value)>> }
            : value \in PropertyValues } } }

Converter ==
  [zodSchemas |-> zodSchemas, processing |-> processingSchemas,
   files |-> project, mapping |-> typeToSchemaMapping,
   preScans |-> preScans]

StoreConverter(r) ==
  /\ zodSchemas' = r.st.zodSchemas
  /\ processingSchemas' = r.st.processing
  /\ typeToSchemaMapping' = r.st.mapping
  /\ preScans' = r.st.preScans
  /\ returned' = r.v

\* One call of the converter's convertZodSchemaToOpenApi(name).
ConvertSchema(name) ==
  /\ StoreConverter(ConvertZodSchemaToOpenApi(Converter, name))
  /\ requested' = DataTypesFor("body", name)
  /\ UNCHANGED <<project, openapiDefinitions, typeDefinitions,
                 processSchemaTracker, processingTypes,
                 isResolvingPickOmitBase, contentType, overflow, routeVars>>

InitZod ==
  /\ project \in ZodProjects
  /\ NoRoutes
  /\ InitProcessor

NextZod == \E name \in {"Target", "UserSchema", "Missing"} : ConvertSchema(name)

SpecZod == InitZod /\ [][NextZod]_vars

\* The value of Target's property p, and its chain of method names.
TargetInit ==
  project[1].exports[CHOOSE i \in 1..2 :
                       project[1].exports[i].name = "Target"].init

ValueOfP ==
  LET props == TargetInit.args[1].props
  IN props[CHOOSE i \in 1..Len(props) : props[i].key = "p"].value

RECURSIVE MethodsOf(_)
MethodsOf(node) ==
  IF node.t = "call" THEN Append(MethodsOf(node.object), node.method)
  ELSE <<>>

EndsInMarker(node) == node.t = "call" /\ node.method \in Markers

HasNoMarker(node) == SeqToSet(MethodsOf(node)) \cap Markers = {}

RequiredOf(schema) ==
  IF "required" \in DOMAIN schema THEN SeqToSet(schema.required) ELSE {}

\* C7: in a Zod object schema, a property whose call chain ends in
\* optional(), nullable() or nullish(), whatever refinements precede it, is
\* absent from required; a property whose chain has none of the three is
\* present in required.
C7_MarkersDecideRequired ==
  "Target" \in DOMAIN zodSchemas =>
    /\ EndsInMarker(ValueOfP) => "p" \notin RequiredOf(zodSchemas["Target"])
    /\ HasNoMarker(ValueOfP) => "p" \in RequiredOf(zodSchemas["Target"])

\* p: z.string().min(1).describe("d").nullish() was converted and left out
\* of required, next to the required id.
C7_Witness ==
  /\ "Target" \in DOMAIN zodSchemas
  /\ MethodsOf(ValueOfP) = <<"string", "min", "describe", "nullish">>
  /\ RequiredOf(zodSchemas["Target"]) = {"id"}

\* -------------------------------------------- route files (C8, C9, C10)
\* An exported handler under one leading comment; others are the comments
\* written between that comment and the declaration.
Handler(name, comment) ==
  [name |-> name, comment |-> comment, others |-> <<>>]

\* route is what getRoutePath makes of the file's path.
RouteFile(path, route, handlers) ==
  [path |-> path, route |-> route, handlers |-> handlers, parses |-> TRUE]

\* The leading comments a handler may carry.
Comments ==
  { Comment(body, response[1], response[2], responseSet, add) :
      body \in {"", "User", "NonExistentType"},
      response \in {<<"", "">>, <<"User", "">>, <<"User", "201">>},
      responseSet \in {<<>>, <<"auth">>, <<"auth", "common">>, <<"none">>,
                       <<"unknown">>},
      add \in {<<>>, <<AddEntry("409", "")>>,
               <<AddEntry("401", "ConflictResponse")>>} }

\* app/api/users/route.ts exports one handler.
RouteFiles ==
  { <<RouteFile("app/api/users/route.ts", <<Seg("users")>>,
                <<Handler(method, comment)>>)>>
    : method \in {"GET", "POST", "DELETE"}, comment \in Comments }

\* The schema directory declares User only.
RouteSchemas == <<SourceFile("types.ts", [n \in {"User"} |-> UserDecl])>>

InitRoute ==
  /\ project = RouteSchemas
  /\ apiDir \in RouteFiles
  /\ config \in {Config(<<>>), Config(<<"common">>)}
  /\ InitProcessor

RouteSession ==
  [proc |-> Session, paths |-> swaggerPaths, order |-> routeOrder]

StoreRoutes(rst) ==
  /\ openapiDefinitions' = rst.proc.defs
  /\ typeDefinitions' = rst.proc.tdefs
  /\ processSchemaTracker' = rst.proc.tracker
  /\ processingTypes' = rst.proc.processing
  /\ isResolvingPickOmitBase' = rst.proc.flag
  /\ contentType' = rst.proc.ctype
  /\ overflow' = rst.proc.overflow
  /\ zodSchemas' = rst.proc.zod.zodSchemas
  /\ processingSchemas' = rst.proc.zod.processing
  /\ typeToSchemaMapping' = rst.proc.zod.mapping
  /\ preScans' = rst.proc.zod.preScans
  /\ swaggerPaths' = rst.paths
  /\ routeOrder' = rst.order

\* if (this.processFileTracker[filePath]) return
AlreadyProcessed(tracker, path) == path \in tracker

\* A processFile that records nothing in processFileTracker.
KeepTracker(tracker, path) == tracker

\* this.processFileTracker[filePath] = true
MarkProcessed(tracker, path) == tracker \cup {path}

\* processFile(filePath), for a file not processed before: a file that
\* cannot be parsed throws, and neither processFile nor scanApiRoutes
\* catches the error.
ProcessFile(i) ==
  /\ ~aborted
  /\ apiDir[i].path \notin processFileTracker
  /\ IF apiDir[i].parses
     THEN /\ StoreRoutes(VisitHandlers(RouteSession, apiDir[i], 1, config))
          /\ processFileTracker' =
               MarkProcessed(processFileTracker, apiDir[i].path)
          /\ aborted' = FALSE
     ELSE /\ aborted' = TRUE
          /\ UNCHANGED <<openapiDefinitions, typeDefinitions,
                         processSchemaTracker, processingTypes,
                         isResolvingPickOmitBase, contentType, overflow,
                         zodVars, swaggerPaths, routeOrder,
                         processFileTracker>>
  /\ UNCHANGED <<project, requested, returned, apiDir, config>>

\* getSwaggerPaths(): the keys of the object it returns, in order
EmitPaths ==
  /\ returned' = GetSwaggerPaths(swaggerPaths, routeOrder)
  /\ UNCHANGED <<project, openapiDefinitions, typeDefinitions,
                 processSchemaTracker, processingTypes,
                 isResolvingPickOmitBase, contentType, overflow, requested,
                 zodVars, routeVars>>

NextRoute == \E i \in 1..Len(apiDir) : ProcessFile(i)

SpecRoute == InitRoute /\ [][NextRoute]_vars

TheHandler == apiDir[1].handlers[1]

Processed == apiDir[1].path \in processFileTracker

Recorded ==
  /\ apiDir[1].route \in DOMAIN swaggerPaths
  /\ TheHandler.name \in DOMAIN swaggerPaths[apiDir[1].route]

TheResponses == swaggerPaths[apiDir[1].route][TheHandler.name].responses

\* C8: a DELETE handler with no @response gets a responses map holding the
\* key 204, whose entry has no schema, and no 200 entry.
C8_DeleteDefaultsTo204 ==
  (/\ Processed
   /\ TheHandler.name = "DELETE"
   /\ TheHandler.comment.response = "")
  => /\ Recorded
     /\ "204" \in DOMAIN TheResponses
     /\ "content" \notin DOMAIN TheResponses["204"]
     /\ "200" \notin DOMAIN TheResponses

NamesDefinedSets(comment) ==
  /\ Len(comment.responseSet) > 0
  /\ \A i \in 1..Len(comment.responseSet) :
        comment.responseSet[i] \in DOMAIN ResponseSets

CodesOf(setNames) ==
  UNION { SeqToSet(ResponseSets[setNames[i]]) : i \in 1..Len(setNames) }

\* The codes an @add entry of the form code:Schema names.
CodesAddedWithSchema(comment) ==
  { comment.add[i].code :
      i \in {j \in 1..Len(comment.add) : comment.add[j].ref # ""} }

C10_MissingTypeIsEmptySchema ==
  (Processed /\ TheHandler.comment.body = "NonExistentType")
  => /\ ~overflow
     /\ Recorded
     /\ "NonExistentType" \in DOMAIN openapiDefinitions
     /\ openapiDefinitions["NonExistentType"] = EmptySchema
     /\ TheHandler.name \in MUTATION_HTTP_METHODS =>
          swaggerPaths[apiDir[1].route][TheHandler.name].requestBody =
            [content |-> JsonContent(EmptySchema)]

\* A POST handler with @body NonExistentType was recorded with a request body.
C10_Witness ==
  /\ Processed
  /\ TheHandler.name = "POST"
  /\ TheHandler.comment.body = "NonExistentType"
  /\ Recorded
  /\ "requestBody" \in DOMAIN swaggerPaths[apiDir[1].route]["POST"]

\* ------------------------------------------------------ path order (C11)
Tagged(tag) == [PlainComment EXCEPT !.tag = tag]

\* Route files of one GET handler each; /users/a and /users/b have the same
\* first tag and the same number of segments, /admin is tagged Users.
OrderFilePool ==
  { RouteFile("app/api/users/route.ts", <<Seg("users")>>,
              <<Handler("GET", PlainComment)>>),
    RouteFile("app/api/users/a/route.ts", <<Seg("users"), Seg("a")>>,
              <<Handler("GET", PlainComment)>>),
    RouteFile("app/api/users/b/route.ts", <<Seg("users"), Seg("b")>>,
              <<Handler("GET", PlainComment)>>),
    RouteFile("app/api/orders/route.ts", <<Seg("orders")>>,
              <<Handler("GET", PlainComment)>>),
    RouteFile("app/api/admin/route.ts", <<Seg("admin")>>,
              <<Handler("GET", Tagged("Users"))>>) }

\* Every choice of 2..MaxFiles distinct files, in every directory order.
FileLists(pool) ==
  UNION { { f \in [1..n -> pool] :
              \A i, j \in 1..n : i # j => f[i].path # f[j].path }
          : n \in 2..MaxFiles }

InitOrder ==
  /\ project = RouteSchemas
  /\ apiDir \in FileLists(OrderFilePool)
  /\ config = Config(<<>>)
  /\ InitProcessor

\* The files are visited in any order; the paths are read at any time.
NextOrder ==
  \/ \E i \in 1..Len(apiDir) : ProcessFile(i)
  \/ EmitPaths

SpecOrder == InitOrder /\ [][NextOrder]_vars

AllFilesProcessed ==
  \A i \in 1..Len(apiDir) : apiDir[i].path \in processFileTracker

\* A route processor as the constructor leaves it.
NewRouteSession ==
  [proc |-> NewSession, paths |-> EmptySchema, order |-> <<>>]

\* The same files visited in directory order by a new processor.
InDirectoryOrder == ScanApiRoutes(NewRouteSession, apiDir, 1, config)

\* C11: once every route file was visited, in whatever order, the paths
\* getSwaggerPaths returns are in the order they have when the same files are
\* visited in directory order.
C11_PathOrderIgnoresTraversal ==
  AllFilesProcessed =>
    GetSwaggerPaths(swaggerPaths, routeOrder) =
      GetSwaggerPaths(InDirectoryOrder.paths, InDirectoryOrder.order)

\* ------------------------------------------------ parameters (C12, C17)
\* The members the path parameter type P and the query parameter type Q
\* may declare.
PathMemberPool ==
  { Member("id", Kw("string"), FALSE),
    Member("orderId", Kw("number"), FALSE),
    Member("slug", Kw("string"), FALSE) }

QueryMemberPool ==
  { Member("page", Kw("number"), TRUE),
    Member("limit", Kw("number"), TRUE),
    Member("sort", Kw("string"), TRUE),
    Member("q", Kw("string"), FALSE) }

\* Every order of every choice of 1..MaxParams distinct members.
ParamLists(pool) ==
  UNION { { s \in [1..n -> pool] :
              \A i, j \in 1..n : i # j => s[i].name # s[j].name }
          : n \in 1..MaxParams }

\* types.ts declares OrderIdParams and OrdersQueryParams.
ParamProjects ==
  { <<SourceFile("types.ts",
        Put([n \in {"OrderIdParams"} |-> TypeLit(p)],
            "OrdersQueryParams", TypeLit(q)))>>
    : p \in ParamLists(PathMemberPool), q \in ParamLists(QueryMemberPool) }

\* /orders/{id}, /orders/{orderId}/items/{slug} and /orders
ParamRoutes ==
  { <<Seg("orders"), ParamSeg("id")>>,
    <<Seg("orders"), ParamSeg("orderId"), Seg("items"), ParamSeg("slug")>>,
    <<Seg("orders")>> }

ParamComments ==
  { [PlainComment EXCEPT !.pathParams = pp, !.params = q]
    : pp \in {"", "OrderIdParams", "Missing"},
      q \in {"", "OrdersQueryParams"} }

InitParams ==
  /\ project \in ParamProjects
  /\ apiDir \in { <<RouteFile("app/api/orders/route.ts", route,
                              <<Handler("GET", comment)>>)>>
                  : route \in ParamRoutes, comment \in ParamComments }
  /\ config = Config(<<>>)
  /\ InitProcessor

SpecParams == InitParams /\ [][NextRoute]_vars

TheParameters == swaggerPaths[apiDir[1].route][TheHandler.name].parameters

ParametersIn(location) ==
  LET There(entry) == entry.in = location
  IN SelectSeq(TheParameters, There)

DeclaredMembers(typeName) == project[1].decls[typeName].members

\* One entry per member, with the member's name and declared type.
OnePerMember(entries, members) ==
  /\ Len(entries) = Len(members)
  /\ \A i \in 1..Len(members) :
       \E j \in 1..Len(entries) :
          /\ entries[j].name = members[i].name
          /\ entries[j].schema.type = members[i].type.k

HasPlaceholders == Len(ExtractPathParameters(apiDir[1].route)) > 0

\* C12: for a handler at a URL template with placeholders that declares
\* @pathParams P and @params Q, the parameters are one in=path, required
\* entry per member of P and one in=query entry per member of Q, each of the
\* member's declared type, every optional member of Q having required =
\* false, and nothing else.
C12_DeclaredParametersAreListed ==
  (/\ Processed
   /\ HasPlaceholders
   /\ TheHandler.comment.pathParams = "OrderIdParams"
   /\ TheHandler.comment.params = "OrdersQueryParams")
  => /\ Recorded
     /\ Len(TheParameters) = Len(DeclaredMembers("OrderIdParams"))
                             + Len(DeclaredMembers("OrdersQueryParams"))
     /\ OnePerMember(ParametersIn("path"), DeclaredMembers("OrderIdParams"))
     /\ \A j \in 1..Len(ParametersIn("path")) :
          ParametersIn("path")[j].required = TRUE
     /\ OnePerMember(ParametersIn("query"),
                     DeclaredMembers("OrdersQueryParams"))
     /\ \A i \in 1..Len(DeclaredMembers("OrdersQueryParams")) :
          DeclaredMembers("OrdersQueryParams")[i].optional =>
            \A j \in 1..Len(ParametersIn("query")) :
               ParametersIn("query")[j].name
                 = DeclaredMembers("OrdersQueryParams")[i].name
               => ParametersIn("query")[j].required = FALSE

\* /orders/{id} with P = {id: string} and Q = {page?: number, limit?: number}
\* was recorded with the path parameter id and the query parameters page
\* and limit.
C12_Witness ==
  /\ Processed
  /\ apiDir[1].route = <<Seg("orders"), ParamSeg("id")>>
  /\ TheHandler.comment.pathParams = "OrderIdParams"
  /\ TheHandler.comment.params = "OrdersQueryParams"
  /\ DeclaredMembers("OrderIdParams") = <<Member("id", Kw("string"), FALSE)>>
  /\ DeclaredMembers("OrdersQueryParams")
       = <<Member("page", Kw("number"), TRUE),
           Member("limit", Kw("number"), TRUE)>>
  /\ Len(TheParameters) = 3
  /\ ParametersIn("path")[1].name = "id"
  /\ ParametersIn("query")[2].name = "limit"

\* The type the default schema gives a placeholder.
DefaultTypeOf(paramName) ==
  IF paramName \in IdNames THEN "number" ELSE "string"

\* C17: a recorded route whose URL template has placeholders and whose
\* handler declares no @pathParams type, or one that cannot be resolved, has
\* one synthesized in=path, required parameter per placeholder, typed number
\* when the name is id or ends in Id and string otherwise, with an example.
C17_PlaceholdersGetDefaultParameters ==
  (/\ Processed
   /\ HasPlaceholders
   /\ TheHandler.comment.pathParams \in {"", "Missing"})
  => /\ Recorded
     /\ \A i \in 1..Len(ExtractPathParameters(apiDir[1].route)) :
          \E j \in 1..Len(ParametersIn("path")) :
             /\ ParametersIn("path")[j].name
                  = ExtractPathParameters(apiDir[1].route)[i]
             /\ ParametersIn("path")[j].required = TRUE
             /\ ParametersIn("path")[j].schema.type
                  = DefaultTypeOf(ExtractPathParameters(apiDir[1].route)[i])
             /\ "example" \in DOMAIN ParametersIn("path")[j]

\* ------------------------------------------- annotated routes only (C13)
Marked == [PlainComment EXCEPT !.openapi = TRUE]

\* A handler under one or two comments, each with or without @openapi;
\* helper is an exported function that is not named after an HTTP method.
AnnotatedHandlers ==
  { [Handler(name, first) EXCEPT !.others = others]
    : name \in {"GET", "POST", "helper"},
      first \in {PlainComment, Marked},
      others \in {<<>>, <<PlainComment>>, <<Marked>>} }

\* One or two handlers of different names.
HandlerLists(pool) ==
  { <<h>> : h \in pool }
  \cup { <<g, h>> : g \in {x \in pool : x.name = "GET"},
                    h \in {x \in pool : x.name # "GET"} }

InitOpenApi ==
  /\ project = RouteSchemas
  /\ apiDir \in { <<RouteFile("app/api/users/route.ts", <<Seg("users")>>,
                              handlers)>>
                  : handlers \in HandlerLists(AnnotatedHandlers) }
  /\ config \in { [Config(<<>>) EXCEPT !.includeOpenApiRoutes = b]
                  : b \in BOOLEAN }
  /\ InitProcessor

SpecOpenApi == InitOpenApi /\ [][NextRoute]_vars

IsRecorded(file, handler) ==
  /\ file.route \in DOMAIN swaggerPaths
  /\ handler.name \in DOMAIN swaggerPaths[file.route]

HasOpenApiMarker(handler) ==
  \E i \in 1..Len(LeadingComments(handler)) :
     LeadingComments(handler)[i].openapi

\* C13: with includeOpenApiRoutes, an exported HTTP-verb handler is recorded
\* exactly when one of the comments attached to it contains @openapi;
\* without it, every exported HTTP-verb handler is recorded.
C13_OnlyMarkedHandlersAreRecorded ==
  Processed =>
    \A i \in 1..Len(apiDir[1].handlers) :
       apiDir[1].handlers[i].name \in HTTP_METHODS =>
         IF config.includeOpenApiRoutes
         THEN IsRecorded(apiDir[1], apiDir[1].handlers[i])
                <=> HasOpenApiMarker(apiDir[1].handlers[i])
         ELSE IsRecorded(apiDir[1], apiDir[1].handlers[i])

\* ------------------------------------------------ unparseable files (C14)
\* A file whose content the parser rejects.
Broken(file) == [file EXCEPT !.parses = FALSE]

\* Route files whose GET handler declares @response User.
SkipFilePool ==
  { RouteFile(path[1], path[2],
              <<Handler("GET", Comment("", "User", "", <<>>, <<>>))>>)
    : path \in { <<"app/api/users/route.ts", <<Seg("users")>>>>,
                 <<"app/api/orders/route.ts", <<Seg("orders")>>>>,
                 <<"app/api/admin/route.ts", <<Seg("admin")>>>> } }

\* The schema directory: types.ts declares User; broken.ts, before or after
\* it, cannot be parsed.
SkipProjects ==
  { RouteSchemas,
    <<Broken(SourceFile("broken.ts", EmptySchema))>> \o RouteSchemas,
    RouteSchemas \o <<Broken(SourceFile("broken.ts", EmptySchema))>> }

InitSkip ==
  /\ project \in SkipProjects
  /\ apiDir \in FileLists(SkipFilePool \cup {Broken(f) : f \in SkipFilePool})
  /\ config = Config(<<>>)
  /\ InitProcessor

SpecSkip == InitSkip /\ [][NextRoute]_vars

\* The schema of User, resolved by a new processor over types.ts alone.
UserAlone ==
  GetSchemaContent([NewSession EXCEPT !.files = RouteSchemas],
                   DataTypesFor("response", "User")).v.responses

\* C14: a file that cannot be parsed is skipped, be it a route file or a
\* declaration file: no error leaves the scan, and the routes and schemas of
\* the files visited besides it are in the output.
C14_BrokenFilesAreSkipped ==
  /\ ~aborted
  /\ \A i \in 1..Len(apiDir) :
       (apiDir[i].parses /\ apiDir[i].path \in processFileTracker) =>
          /\ IsRecorded(apiDir[i], apiDir[i].handlers[1])
          /\ "User" \in DOMAIN openapiDefinitions
          /\ openapiDefinitions["User"] = UserAlone

\* ------------------------------------------ request content type (C18)
\* types.ts declares User and three upload types, each with a file member.
UploadDecl ==
  TypeLit(<<Member("file", Kw("object"), FALSE),
            Member("title", Kw("string"), TRUE)>>)

BodyProject ==
  <<SourceFile("types.ts",
      [n \in {"User"} \cup FormDataWords |->
         IF n = "User" THEN UserDecl ELSE UploadDecl])>>

BodyComments ==
  { [Comment(body, "", "", <<>>, <<>>) EXCEPT !.contentType = ctype]
    : body \in {"", "User"} \cup FormDataWords,
      ctype \in {"", "multipart/form-data", "application/xml"} }

InitBody ==
  /\ project = BodyProject
  /\ apiDir \in { <<RouteFile("app/api/users/route.ts", <<Seg("users")>>,
                              <<Handler(method, comment)>>)>>
                  : method \in {"POST", "PUT", "PATCH", "GET"},
                    comment \in BodyComments }
  /\ config = Config(<<>>)
  /\ InitProcessor

SpecBody == InitBody /\ [][NextRoute]_vars

TheRequestBody == swaggerPaths[apiDir[1].route][TheHandler.name].requestBody

\* C18: the request body of a mutating handler is keyed by the @contentType
\* when there is one; without it, by multipart/form-data when the name of
\* the body type contains formdata, fileupload or multipart, and by
\* application/json otherwise.
C18_ContentTypeFromBodyTypeName ==
  (Processed /\ TheHandler.name \in MUTATION_HTTP_METHODS)
  => /\ Recorded
     /\ DOMAIN TheRequestBody.content =
          { IF TheHandler.comment.contentType # ""
            THEN TheHandler.comment.contentType
            ELSE IF TheHandler.comment.body \in FormDataWords
            THEN "multipart/form-data"
            ELSE "application/json" }

\* --------------------------------------------- bare identifiers (C20)
\* C20: in a Zod object schema, a property whose value is the bare
\* identifier UserSchema is the reference #/components/schemas/UserSchema in
\* the final properties map, and UserSchema was resolved into the cache.
C20_IdentifierPropertyIsRef ==
  ("Target" \in DOMAIN zodSchemas /\ ValueOfP = ZId("UserSchema"))
  => /\ PropGet(zodSchemas["Target"].properties, "p")
          = SchemaRef("UserSchema")
     /\ "UserSchema" \in DOMAIN zodSchemas

\* ------------------------------------------------------- extend (C19)
\* The properties an extension or a base may declare.
ExtendValues ==
  { ZCall(ZId("z"), "string", <<>>),
    ZCall(ZId("z"), "number", <<>>),
    ZCall(ZCall(ZId("z"), "string", <<>>), "optional", <<>>) }

\* One or two properties of different keys; name is a key of the base too.
ExtendProps ==
  { <<ZProp(k, v)>> : k \in {"name", "age", "nick"}, v \in ExtendValues }
  \cup { <<ZProp(k[1], v), ZProp(k[2], w)>>
         : k \in { <<"name", "age">>, <<"age", "name">>, <<"age", "nick">> },
           v \in ExtendValues, w \in ExtendValues }

\* schemas.ts exports UserSchema = z.object({name: z.string()}) and
\* Target = UserSchema.extend({...}), in either order.
ExtendProjects ==
  { <<ZodFile("schemas.ts", exports)>> :
      exports \in UNION {
        { <<Export("UserSchema", UserSchemaInit),
            Export("Target", ZCall(ZId("UserSchema"), "extend",
                                   <<ZObjectExpr(props)>>))>>,
          <<Export("Target", ZCall(ZId("UserSchema"), "extend",
                                   <<ZObjectExpr(props)>>)),
            Export("UserSchema", UserSchemaInit)>> }
        : props \in ExtendProps } }

InitExtend ==
  /\ project \in ExtendProjects
  /\ NoRoutes
  /\ InitProcessor

SpecExtend == InitExtend /\ [][NextZod]_vars

\* The two schemas converted by themselves: the base, and the extension
\* written as z.object({...}).
BaseAloneZod ==
  ProcessZodNode(NewConverter(<<>>), UserSchemaInit).v

ExtensionAlone ==
  ProcessZodNode(NewConverter(<<>>),
                 ZCall(ZId("z"), "object", <<TargetInit.args[1]>>)).v

\* C19: Target = UserSchema.extend({...}) resolves to UserSchema's properties
\* overlaid with the extension's, the extension winning on a shared key, and
\* to UserSchema's required list followed by the extension's, without
\* duplicates.
C19_ExtendMergesBase ==
  "Target" \in DOMAIN zodSchemas =>
    /\ zodSchemas["Target"].properties
         = AssignProperties(BaseAloneZod.properties,
                            ExtensionAlone.properties, 1)
    /\ RequiredOrNone(zodSchemas["Target"])
         = RemoveDuplicates(RequiredOrNone(BaseAloneZod)
                            \o RequiredOrNone(ExtensionAlone))

\* ---------------------------------------------- mutual recursion (C15)
\* The members A and B may declare: A may mention B, B may mention A.
MembersOfA ==
  { Member("b", TRef("B"), FALSE),
    Member("bs", Arr(TRef("B")), FALSE),
    Member("name", Kw("string"), TRUE) }

MembersOfB ==
  { Member("a", TRef("A"), FALSE),
    Member("as", Arr(TRef("A")), TRUE),
    Member("title", Kw("string"), FALSE) }

\* One member, or two of which one at least is a plain string, in either
\* order.
MemberListsOf(pool) ==
  UNION { { s \in [1..n -> pool] :
              \A i, j \in 1..n :
                 i # j => s[i].name # s[j].name
                          /\ "kw" \in {s[i].type.t, s[j].type.t} }
          : n \in {1, 2} }

\* A and B in one file, or in two files met in either order.
MutualProjects ==
  UNION { { <<SourceFile("types.ts",
                Put([n \in {"A"} |-> TypeLit(a)], "B", TypeLit(b)))>>,
            <<SourceFile("a.ts", [n \in {"A"} |-> TypeLit(a)]),
              SourceFile("b.ts", [n \in {"B"} |-> TypeLit(b)])>>,
            <<SourceFile("b.ts", [n \in {"B"} |-> TypeLit(b)]),
              SourceFile("a.ts", [n \in {"A"} |-> TypeLit(a)])>> }
          : a \in MemberListsOf(MembersOfA), b \in MemberListsOf(MembersOfB) }

InitMutual ==
  /\ project \in MutualProjects
  /\ NoRoutes
  /\ InitProcessor

NextMutual ==
  \E role \in RequestRoles, name \in {"A", "B"} :
     RequestSchema(DataTypesFor(role, name))

SpecMutual == InitMutual /\ [][NextMutual]_vars

\* The declaration of typeName, in whichever file holds it.
DeclOf(typeName) ==
  project[CHOOSE i \in 1..Len(project) :
            typeName \in DOMAIN project[i].decls].decls[typeName]

RECURSIVE Mentions(_, _)
Mentions(type, typeName) ==
  CASE type.t = "ref" -> type.name = typeName
    [] type.t = "array" -> Mentions(type.elem, typeName)
    [] OTHER -> FALSE

DeclMentions(decl, typeName) ==
  \E i \in 1..Len(decl.members) : Mentions(decl.members[i].type, typeName)

MutuallyRecursive ==
  DeclMentions(DeclOf("A"), "B") /\ DeclMentions(DeclOf("B"), "A")

\* The schema found where type mentions typeName, or EmptySchema.
RECURSIVE SchemaAt(_, _, _)
SchemaAt(type, schema, typeName) ==
  CASE type.t = "ref" /\ type.name = typeName -> schema
    [] type.t = "array" /\ "items" \in DOMAIN schema ->
         SchemaAt(type.elem, schema.items, typeName)
    [] OTHER -> EmptySchema

\* Inside the schema resolved for outer, every copy of inner's schema holds
\* the reference to outer where inner's declaration mentions outer.
NestedAreRefs(schema, outer, inner) ==
  \A i \in 1..Len(DeclOf(outer).members) :
     Mentions(DeclOf(outer).members[i].type, inner) =>
       LET copy == SchemaAt(DeclOf(outer).members[i].type,
                            PropGet(schema.properties,
                                    DeclOf(outer).members[i].name),
                            inner)
       IN /\ "properties" \in DOMAIN copy
          /\ \A j \in 1..Len(DeclOf(inner).members) :
               OccurrencesAreRefs(DeclOf(inner).members[j].type,
                                  PropGet(copy.properties,
                                          DeclOf(inner).members[j].name),
                                  outer)

\* C15: when A and B mention each other, resolving either terminates
\* without exhausting the stack, and the nested request for the name being
\* resolved is answered with the reference to it.
C15_MutualRecursionTerminates ==
  MutuallyRecursive =>
    /\ ~overflow
    /\ \A role \in RequestRoles :
         /\ requested = DataTypesFor(role, "A") =>
              NestedAreRefs(returned[role], "A", "B")
         /\ requested = DataTypesFor(role, "B") =>
              NestedAreRefs(returned[role], "B", "A")

\* -------------------------------------------------- resolver fallback (C16)
SchemaTypes == {"zod", "typescript"}

\* A file holding structural declarations and builder-DSL constants. Its
\* text contains every declared name, and "User" wherever it contains
\* "UserSchema".
MixedFile(path, decls, exports) ==
  [path |-> path, decls |-> decls, parses |-> TRUE, exports |-> exports,
   aliases |-> <<>>,
   mentions |-> DOMAIN decls
                \cup {exports[i].name : i \in 1..Len(exports)}
                \cup (IF exports = <<>> THEN {} ELSE {"z", "User"})]

\* type User = {...}: known to the structural resolver only.
FallbackTypes ==
  { UserDecl,
    TypeLit(<<Member("id", Kw("number"), FALSE)>>) }

\* export const UserSchema = z.object({...}): known to the builder-DSL
\* resolver only.
FallbackSchemas ==
  { ZCall(ZId("z"), "object", <<ZObjectExpr(props)>>) :
      props \in
        { <<ZProp("name", ZCall(ZId("z"), "string", <<>>))>>,
          <<ZProp("name", ZCall(ZId("z"), "string", <<>>)),
            ZProp("age", ZCall(ZCall(ZId("z"), "number", <<>>),
                               "optional", <<>>))>> } }

\* User and UserSchema in one file, or in two files met in either order.
FallbackProjects ==
  UNION { { <<MixedFile("schemas.ts", [n \in {"User"} |-> type],
                        <<Export("UserSchema", schema)>>)>>,
            <<MixedFile("types.ts", [n \in {"User"} |-> type], <<>>),
              MixedFile("schemas.ts", EmptySchema,
                        <<Export("UserSchema", schema)>>)>>,
            <<MixedFile("schemas.ts", EmptySchema,
                        <<Export("UserSchema", schema)>>),
              MixedFile("types.ts", [n \in {"User"} |-> type], <<>>)>> }
          : type \in FallbackTypes, schema \in FallbackSchemas }

InitFallback ==
  /\ project \in FallbackProjects
  /\ apiDir = <<>>
  /\ config \in { [Config(<<>>) EXCEPT !.schemaType = schemaType] :
                    schemaType \in SchemaTypes }
  /\ InitProcessor

NextFallback ==
  \E role \in Roles, name \in {"User", "UserSchema", "Missing"} :
     RequestSchema(DataTypesFor(role, name))

SpecFallback == InitFallback /\ [][NextFallback]_vars

\* The key of getSchemaContent's result that holds the schema of a role.
ResultKey(role) == IF role = "response" THEN "responses" ELSE role

\* What the structural resolver alone makes of User in the given role.
StructuralAlone(role) ==
  GetSchemaContent([NewSession EXCEPT !.schemaType = "typescript"],
                   DataTypesFor(role, "User")).v[ResultKey(role)]

\* What the builder-DSL resolver alone makes of UserSchema.
BuilderAlone ==
  ConvertZodSchemaToOpenApi(NewConverter(project), "UserSchema").v

\* C16: in both configurations a name only one resolver knows is resolved by
\* that resolver: User (a structural type) gets the structural resolver's
\* schema (as made for the role of its first request) and UserSchema (a
\* builder-DSL constant) gets the builder-DSL resolver's schema, whichever
\* schemaType is configured.
C16_OtherResolverIsFallback ==
  \A role \in Roles :
     /\ requested = DataTypesFor(role, "User") =>
          returned[ResultKey(role)] \in {StructuralAlone(r) : r \in Roles}
     /\ requested = DataTypesFor(role, "UserSchema") =>
          returned[ResultKey(role)] = BuilderAlone

\* ------------------------------------------------------- z.lazy (C21)
\* z.lazy(() => S)
LazyCall(schemaName) == ZCall(ZId("z"), "lazy", <<ZArrow(ZId(schemaName))>>)

\* z.lazy(() => S).m1()...: S is Target itself or UserSchema.
LazyValues ==
  { ChainOf(LazyCall(schemaName), calls) :
      schemaName \in {"Target", "UserSchema"}, calls \in CallLists(0) }

\* schemas.ts exports UserSchema and Target = z.object({...}) in either
\* order; Target holds the property p: z.lazy(...) and a sibling id.
LazyProjects ==
  { <<ZodFile("schemas.ts", exports)>> :
      exports \in UNION {
        { <<Export("UserSchema", UserSchemaInit),
            Export("Target", ZCall(ZId("z"), "object", <<ZObjectExpr(props)>>))>>,
          <<Export("Target", ZCall(ZId("z"), "object", <<ZObjectExpr(props)>>)),
            Export("UserSchema", UserSchemaInit)>> }
        : props \in UNION {
            { <<ZProp("p", value), ZProp("id", ZCall(ZId("z"), "string", <<>>))>>,
              <<ZProp("id", ZCall(ZId("z"), "string", <<>>)), ZProp("p", value)>> }
            : value \in LazyValues } } }

InitLazy ==
  /\ project \in LazyProjects
  /\ NoRoutes
  /\ InitProcessor

SpecLazy == InitLazy /\ [][NextZod]_vars

RECURSIVE RootOf(_)
\* The expression a call chain starts from.
RootOf(node) ==
  IF node.t = "call" /\ node.object.t = "call" THEN RootOf(node.object)
  ELSE node

\* C21: a property whose value is z.lazy(() => S), alone or under further
\* chained methods, is the reference #/components/schemas/S in Target's
\* properties map.
C21_LazyIsRef ==
  "Target" \in DOMAIN zodSchemas =>
    LET p == PropGet(zodSchemas["Target"].properties, "p")
    IN /\ "ref" \in DOMAIN p
       /\ p.ref = SchemaRef(RootOf(ValueOfP).args[1].body.name).ref

\* ------------------------------------------------- the pre-scan (C22)
\* `export type User = z.infer<typeof UserSchema>`
InferAlias(typeName, schemaName) == [type |-> typeName, schema |-> schemaName]

\* schemas.ts with or without the alias User of UserSchema.
AliasProjects ==
  { <<[p[1] EXCEPT !.aliases = aliases,
                   !.mentions = @ \cup {aliases[i].type : i \in 1..Len(aliases)}]>> :
      p \in ExtendProjects,
      aliases \in {<<>>, <<InferAlias("User", "UserSchema")>>} }

InitPreScan ==
  /\ project \in AliasProjects
  /\ NoRoutes
  /\ InitProcessor

NextPreScan ==
  \E name \in {"Target", "UserSchema", "User", "Missing"} : ConvertSchema(name)

SpecPreScan == InitPreScan /\ [][NextPreScan]_vars

\* C22: over any sequence of convertZodSchemaToOpenApi calls on one converter
\* the pre-scan for type mappings runs at most once, also when no file holds
\* a z.infer alias.
C22_PreScanAtMostOnce == preScans <= 1

\* The pre-scan ran again although the files hold no alias at all.
C22_PreScanRepeated ==
  /\ project[1].aliases = <<>>
  /\ preScans > 1

\* With an alias in the files the pre-scan is never repeated.
C22_PreScanOnceWithAlias ==
  project[1].aliases # <<>> => preScans <= 1

\* ------------------------------------- writes of openapiDefinitions (C23)
\* No entry already in openapiDefinitions is given another value by the step.
EntriesKept ==
  \A n \in DOMAIN openapiDefinitions :
     /\ n \in DOMAIN openapiDefinitions'
     /\ openapiDefinitions'[n] = openapiDefinitions[n]

RECURSIVE ScanPrefix(_, _, _, _)
\* scanSchemaDir stopped after the file at index last.
ScanPrefix(st, i, last, schemaName) ==
  IF i > last THEN st
  ELSE ScanPrefix(ProcessSchemaFile(st, st.files[i], schemaName),
                  i + 1, last, schemaName)

\* The files after which openapiDefinitions holds schemaName.
WrittenAfter(st, schemaName) ==
  { k \in 1..Len(st.files) :
      schemaName \in DOMAIN ScanPrefix(st, 1, k, schemaName).defs }

\* The entry of schemaName once the first file that writes it was processed.
FirstWritten(st, schemaName) ==
  ScanPrefix(st, 1,
             CHOOSE k \in WrittenAfter(st, schemaName) :
               \A j \in WrittenAfter(st, schemaName) : k <= j,
             schemaName).defs[schemaName]

\* The request of the step registers name, whose entry is the first value
\* written for it.
FirstResolutionWins(role, name) ==
  (/\ requested' = DataTypesFor(role, name)
   /\ name \notin DOMAIN openapiDefinitions
   /\ name \in DOMAIN openapiDefinitions')
  => openapiDefinitions'[name]
       = FirstWritten([Session EXCEPT !.ctype = role], name)

\* C23: every key of openapiDefinitions is written once: a request leaves
\* the entries it finds as they are, and the entry it adds for the requested
\* name is the first value written for it, whatever file is scanned later.
C23_WrittenOnce ==
  [][/\ EntriesKept
     /\ \A role \in RequestRoles, name \in RequestedNames :
          FirstResolutionWins(role, name)]_vars

\* The requests leave every entry already written as it is.
C23_EntriesKept == [][EntriesKept]_vars

\* With every declaration in one file the first value written stays.
C23_WrittenOnceInOneFile ==
  [][Len(project) = 1 =>
       \A role \in RequestRoles, name \in RequestedNames :
          FirstResolutionWins(role, name)]_vars

\* ------------------------------------------- visiting a file again (C24)
\* The route processor with its tracker; aborted once an error left it.
CurrentScan ==
  [rst |-> RouteSession, tracker |-> processFileTracker, aborted |-> aborted]

StoreScan(scan) ==
  /\ StoreRoutes(scan.rst)
  /\ processFileTracker' = scan.tracker
  /\ aborted' = scan.aborted

\* processFile(filePath) from its first line: the early return for a file
\* in processFileTracker, the error of a file that cannot be parsed, or the
\* traversal and the tracker entry.
ProcessFilePath(scan, file) ==
  IF AlreadyProcessed(scan.tracker, file.path) THEN scan
  ELSE IF ~file.parses THEN [scan EXCEPT !.aborted = TRUE]
  ELSE [rst |-> VisitHandlers(scan.rst, file, 1, config),
        tracker |-> MarkProcessed(scan.tracker, file.path),
        aborted |-> FALSE]

RECURSIVE ScanFiles(_, _)
\* scanApiRoutes(dir): processFile for every route file in directory order,
\* until an error leaves the loop.
ScanFiles(scan, i) ==
  IF i > Len(apiDir) \/ scan.aborted THEN scan
  ELSE ScanFiles(ProcessFilePath(scan, apiDir[i]), i + 1)

\* One processFile call, for a file visited before or not.
VisitFile(i) ==
  /\ ~aborted
  /\ StoreScan(ProcessFilePath(CurrentScan, apiDir[i]))
  /\ UNCHANGED <<project, requested, returned, apiDir, config>>

\* One scanApiRoutes call over the whole tree.
ScanTree ==
  /\ ~aborted
  /\ StoreScan(ScanFiles(CurrentScan, 1))
  /\ UNCHANGED <<project, requested, returned, apiDir, config>>

\* Three route files that parse and one that does not.
RescanFilePool ==
  { RouteFile("app/api/users/route.ts", <<Seg("users")>>,
              <<Handler("GET", PlainComment), Handler("POST", PlainComment)>>),
    RouteFile("app/api/users/a/route.ts", <<Seg("users"), Seg("a")>>,
              <<Handler("GET", PlainComment)>>),
    RouteFile("app/api/orders/route.ts", <<Seg("orders")>>,
              <<Handler("GET", Tagged("Users"))>>),
    Broken(RouteFile("app/api/broken/route.ts", <<Seg("broken")>>,
                     <<Handler("GET", PlainComment)>>)) }

InitRescan ==
  /\ project = RouteSchemas
  /\ apiDir \in FileLists(RescanFilePool)
  /\ config = Config(<<>>)
  /\ InitProcessor

NextRescan ==
  \/ \E i \in 1..Len(apiDir) : VisitFile(i)
  \/ ScanTree

SpecRescan == InitRescan /\ [][NextRescan]_vars

\* The paths map and every other field of the two processors.
ProcessorVars ==
  <<openapiDefinitions, typeDefinitions, processSchemaTracker,
    processingTypes, isResolvingPickOmitBase, contentType, overflow,
    zodVars, swaggerPaths, routeOrder, processFileTracker, aborted>>

\* C24: a processFile call that completes records its path; a later
\* processFile of a recorded path changes nothing; and once a scan went over
\* the whole tree a further scan or visit leaves the paths map as it is.
C24_RouteProcessingIdempotent ==
  [][/\ \A i \in 1..Len(apiDir) :
          /\ (apiDir[i].parses /\ VisitFile(i))
               => apiDir[i].path \in processFileTracker'
          /\ (apiDir[i].path \in processFileTracker /\ VisitFile(i))
               => UNCHANGED ProcessorVars
     /\ AllFilesProcessed =>
          /\ UNCHANGED ProcessorVars
          /\ ScanFiles(CurrentScan, 1) = CurrentScan]_vars

\* Every file was processed, routes are recorded, and a second scan of the
\* tree ends in the same processor.
C24_Witness ==
  /\ AllFilesProcessed
  /\ Len(routeOrder) > 1
  /\ ScanFiles(ScanFiles(CurrentScan, 1), 1) = CurrentScan

\* ------------------------------------------------- enum declarations (C25)
\* The initializers a member may have: none, 0, 1, "" and "a".
Initializers ==
  { NoInitializer, Lit("number", "0"), Lit("number", "1"),
    Lit("string", ""), Lit("string", "a") }

MemberNames == <<"A", "B", "C", "D">>

\* enum Status { A [= ...], B [= ...], ... } of 1..MaxMembers members.
EnumDecls ==
  UNION { { EnumDecl([i \in 1..n |-> EnumMember(MemberNames[i], inits[i])])
            : inits \in [1..n -> Initializers] }
          : n \in 1..MaxMembers }

InitEnum ==
  /\ project \in { <<SourceFile("types.ts", [n \in {"Status"} |-> decl])>>
                   : decl \in EnumDecls }
  /\ NoRoutes
  /\ InitProcessor

NextEnum ==
  \E role \in RequestRoles, name \in {"Status", "Missing"} :
     RequestSchema(DataTypesFor(role, name))

SpecEnum == InitEnum /\ [][NextEnum]_vars

StatusDecl == project[1].decls["Status"]

HasInitializer(member) == member.init.t = "lit"

\* The entry of a member: its initializer's value, or its name without one.
DeclaredValue(member) ==
  IF HasInitializer(member) THEN LitValue(member.init)
  ELSE [kind |-> "string", repr |-> member.name]

\* number with a numeric initializer among the members, else string.
DeclaredEnumType(decl) ==
  IF \E i \in 1..Len(decl.members) :
        HasInitializer(decl.members[i]) /\ decl.members[i].init.kind = "number"
  THEN "number" ELSE "string"

\* C25: the schema of an enum has type number when a member has a numeric
\* initializer and string otherwise, and lists per member, in order, the
\* initializer's value (0 and "" included) or, without initializer, the name.
C25_EnumListsInitializers ==
  "Status" \in DOMAIN openapiDefinitions =>
     openapiDefinitions["Status"] =
       [type |-> DeclaredEnumType(StatusDecl),
        enum |-> [i \in 1..Len(StatusDecl.members) |->
                    DeclaredValue(StatusDecl.members[i])]]

\* The type of the enum schema is as stated.
C25_EnumType ==
  "Status" \in DOMAIN openapiDefinitions =>
     openapiDefinitions["Status"].type = DeclaredEnumType(StatusDecl)

\* The list is as stated when no initializer is 0 or "".
C25_EnumListsTruthyInitializers ==
  ("Status" \in DOMAIN openapiDefinitions
   /\ \A i \in 1..Len(StatusDecl.members) :
         StatusDecl.members[i].init \notin {Lit("number", "0"), Lit("string", "")})
  => openapiDefinitions["Status"].enum =
       [i \in 1..Len(StatusDecl.members) |->
          DeclaredValue(StatusDecl.members[i])]

\* ------------------------------------------- alias of an intersection (C26)
\* type A = {...}; type B = {...}; type AB = A & B; and Holder, whose
\* property both is the same intersection written inline.
TheIntersection == Inter(<<TRef("A"), TRef("B")>>)

DistinctLists(pool) ==
  UNION { { s \in [1..n -> pool] :
              \A i, j \in 1..n : i # j => s[i].name # s[j].name }
          : n \in 1..MaxKeys }

InterProjects ==
  { <<SourceFile("types.ts",
        [n \in {"A", "B", "AB", "Holder"} |->
           CASE n = "A" -> TypeLit(a)
             [] n = "B" -> TypeLit(b)
             [] n = "AB" -> TheIntersection
             [] OTHER ->
                  TypeLit(<<Member("both", TheIntersection, FALSE)>>)])>>
    : a \in DistinctLists({ Member("id", Kw("number"), FALSE),
                            Member("name", Kw("string"), TRUE) }),
      b \in DistinctLists({ Member("name", Kw("number"), FALSE),
                            Member("email", Kw("string"), FALSE) }) }

InitInter ==
  /\ project \in InterProjects
  /\ NoRoutes
  /\ InitProcessor

NextInter ==
  \E role \in RequestRoles, name \in {"AB", "Holder", "A"} :
     RequestSchema(DataTypesFor(role, name))

SpecInter == InitInter /\ [][NextInter]_vars

\* The intersection resolved inline by a new processor in the given role.
InlineIntersection(role) ==
  CallResolveTSNodeType([NewSession EXCEPT !.ctype = role],
                        TheIntersection).v

\* C26: the alias AB = A & B resolves to the object schema the same
\* intersection has when it is written inline: the properties of A and B,
\* the later member winning.
C26_AliasOfIntersection ==
  "AB" \in DOMAIN openapiDefinitions =>
     openapiDefinitions["AB"] \in
       { InlineIntersection(role) : role \in RequestRoles }

\* The alias is registered as the empty schema in every state that holds it.
C26_AliasIsEmpty ==
  "AB" \in DOMAIN openapiDefinitions =>
     openapiDefinitions["AB"] = EmptySchema

\* Written inline, as the property of Holder, the intersection is the object
\* of the merged properties.
C26_InlineIsMerged ==
  "Holder" \in DOMAIN openapiDefinitions =>
     /\ PropGet(openapiDefinitions["Holder"].properties, "both").type = "object"
     /\ {q.name : q \in SeqToSet(PropGet(openapiDefinitions["Holder"].properties,
                                          "both").properties)}
          = {m.name : m \in SeqToSet(project[1].decls["A"].members)}
              \cup {m.name : m \in SeqToSet(project[1].decls["B"].members)}

\* ------------------------------- a Pick/Omit base requested later (C27)
\* The last request named Base directly, in the given role.
BaseRequested(role) == requested = DataTypesFor(role, "Base")

\* C27: a direct request of Base returns the full declared schema and
\* registers it, whatever was resolved before: also when Base was resolved
\* before only as the base of View = Pick<Base, K> or Omit<Base, K>.
C27_DirectRequestAfterPickBase ==
  \A role \in RequestRoles :
     BaseRequested(role) =>
        /\ returned[ResultKey(role)] \in {BaseAlone(r) : r \in RequestRoles}
        /\ "Base" \in DOMAIN openapiDefinitions

\* Base was requested directly and nothing came back: the request returned
\* the empty schema and registered nothing.
C27_BaseLost ==
  \E role \in RequestRoles :
     /\ BaseRequested(role)
     /\ returned[ResultKey(role)] = EmptySchema
     /\ "Base" \notin DOMAIN openapiDefinitions

\* A direct request of Base before View was ever requested is answered in
\* full.
C27_DirectRequestFirst ==
  \A role \in RequestRoles :
     (BaseRequested(role) /\ "View" \notin DOMAIN openapiDefinitions) =>
        /\ returned[ResultKey(role)] \in {BaseAlone(r) : r \in RequestRoles}
        /\ "Base" \in DOMAIN openapiDefinitions

\* ------------------------------------- the role of the first request (C28)
\* The entry a new processor registers for name when it is requested in the
\* given role.
RegisteredAlone(role, name) ==
  GetSchemaContent(NewSession, DataTypesFor(role, name)).st.defs[name]

\* C28: the schema registered for User is the same whichever role User was
\* first requested under.
C28_RoleIndependentEntry ==
  "User" \in DOMAIN openapiDefinitions =>
     \A role \in RequestRoles :
        openapiDefinitions["User"] = RegisteredAlone(role, "User")

\* The entry of User is the one of some role's first request.
C28_EntryOfSomeRole ==
  "User" \in DOMAIN openapiDefinitions =>
     \E role \in RequestRoles :
        openapiDefinitions["User"] = RegisteredAlone(role, "User")

\* User is registered with nullable on its properties, as body wrote it,
\* and the last request read it as params.
C28_BodyEntryReadAsParams ==
  /\ requested = DataTypesFor("params", "User")
  /\ "User" \in DOMAIN openapiDefinitions
  /\ "nullable" \in DOMAIN PropGet(openapiDefinitions["User"].properties, "name")
  /\ returned.params = openapiDefinitions["User"]

\* ------------------------------------------- reference integrity (C29)
\* The schema directory declares User and ConflictResponse.
RefSchemas ==
  <<SourceFile("types.ts",
      [n \in {"User", "ConflictResponse"} |->
         IF n = "User" THEN UserDecl
         ELSE TypeLit(<<Member("message", Kw("string"), FALSE)>>)])>>

InitRefs ==
  /\ project = RefSchemas
  /\ apiDir \in RouteFiles
  /\ config \in {Config(<<>>), Config(<<"common">>)}
  /\ InitProcessor

SpecRefs == InitRefs /\ [][NextRoute]_vars

\* components.schemas of the document: getDefinedSchemas() with schemaType
\* typescript, merged into a template that declares no schema.
ComponentsSchemas == openapiDefinitions

\* The status codes whose response carries a schema that is a $ref.
CodesWithSchemaRef(responses) ==
  { code \in DOMAIN responses :
      /\ "content" \in DOMAIN responses[code]
      /\ "ref" \in DOMAIN responses[code].content["application/json"].schema }

\* N of '#/components/schemas/N'
RefTarget(schema) == schema.ref[4]

\* The names the $ref schemas of the responses point to.
ResponseSchemaRefs(responses) ==
  { RefTarget(responses[code].content["application/json"].schema) :
      code \in CodesWithSchemaRef(responses) }

\* C29: every $ref '#/components/schemas/N' in the responses of a recorded
\* operation, the ones of `@add <code>:N` included, has the entry N in
\* components.schemas.
C29_ReferenceIntegrity ==
  (Processed /\ Recorded) =>
     ResponseSchemaRefs(TheResponses) \subseteq DOMAIN ComponentsSchemas

\* The handler's `@add 401:ConflictResponse` left a $ref to a schema the
\* document does not hold, although types.ts declares it.
C29_DanglingAddRef ==
  /\ Processed /\ Recorded
  /\ "ConflictResponse" \in ResponseSchemaRefs(TheResponses)
  /\ "ConflictResponse" \notin DOMAIN ComponentsSchemas

\* The $ref schemas of the responses are the ones the @add entries name:
\* the schema of @response is written inline.
C29_RefsComeFromAdd ==
  (Processed /\ Recorded) =>
     ResponseSchemaRefs(TheResponses) =
       { TheHandler.comment.add[i].ref :
           i \in {j \in 1..Len(TheHandler.comment.add) :
                    TheHandler.comment.add[j].ref # ""} }

\* ------------------------------------- state left by a request (C30)
\* types.ts declares User, Base and View = Pick<Base, K> or Omit<Base, K>,
\* and exports the builder schemas UserSchema and Target; broken.ts, met
\* before or after it or absent, cannot be parsed.
SettledMembers ==
  { <<Member("id", Kw("string"), FALSE)>>,
    <<Member("id", Kw("string"), FALSE), Member("owner", TRef("User"), FALSE)>>,
    <<Member("parent", TRef("Base"), TRUE), Member("id", Kw("string"), FALSE)>> }

SettledFiles ==
  { MixedFile("types.ts",
      [n \in {"User", "Base", "View"} |->
         CASE n = "User" -> UserDecl
           [] n = "Base" -> TypeLit(members)
           [] OTHER -> Generic(util, <<TRef("Base"), KeysNode(<<"id">>)>>)],
      <<Export("UserSchema", UserSchemaInit),
        Export("Target",
               ZCall(ZId("z"), "object",
                     <<ZObjectExpr(<<ZProp("p", value)>>)>>))>>)
    : members \in SettledMembers, util \in {"Pick", "Omit"},
      value \in { ZCall(ZId("z"), "string", <<>>),
                  ZCall(ZId("UserSchema"), "optional", <<>>),
                  ZCall(ZId("Target"), "optional", <<>>) } }

SettledProjects ==
  UNION { { <<f>>,
            <<Broken(SourceFile("broken.ts", EmptySchema)), f>>,
            <<f, Broken(SourceFile("broken.ts", EmptySchema))>> }
          : f \in SettledFiles }

InitSettled ==
  /\ project \in SettledProjects
  /\ apiDir = <<>>
  /\ config \in { [Config(<<>>) EXCEPT !.schemaType = schemaType] :
                    schemaType \in SchemaTypes }
  /\ InitProcessor

\* Top-level requests: getSchemaContent in either configuration, and the
\* converter's convertZodSchemaToOpenApi where the converter exists.
NextSettled ==
  \/ \E role \in RequestRoles, name \in {"View", "Base", "Target", "Missing"} :
        RequestSchema(DataTypesFor(role, name))
  \/ /\ config.schemaType = "zod"
     /\ \E name \in {"Target", "UserSchema", "Missing"} : ConvertSchema(name)

SpecSettled == InitSettled /\ [][NextSettled]_vars

====
